---- MODULE Spec2Model ----
(***************************************************************************)
(* A model of veb: the wire protocol (protocol.ts: the command schemas,    *)
(* parseCommand, the response constructors), the command dispatcher        *)
(* (executeCommand and its handlers) and the daemon host that            *)
(* reads commands from connections and runs them one at a time.            *)
(***************************************************************************)
EXTENDS Integers, Sequences, FiniteSets, TLC

(***************************************************************************)
(* JavaScript / JSON values.  Every value has the same shape so that any   *)
(* two of them can be compared: t is the type, s the text of a string (or  *)
(* the name of a non-finite number, or of a boolean), n and m its numbers. *)
(* An array is kept as what its elements are (s: "string", "number",        *)
(* "null", "undefined", or "NaN" for numbers that are not finite) and its  *)
(* length (n); the only nested object of the protocol, a viewport, as      *)
(* width (n) and height (m).                                               *)
(* A key that is absent and a key whose value is undefined are the same:   *)
(* the key is not in the DOMAIN of the object.                             *)
(***************************************************************************)
Str(s) == [t |-> "string", s |-> s, n |-> 0, m |-> 0]
Num(k) == [t |-> "number", s |-> "", n |-> k, m |-> 0]
Infinity == [t |-> "number", s |-> "Infinity", n |-> 0, m |-> 0]
NaN == [t |-> "number", s |-> "NaN", n |-> 0, m |-> 0]
Bool(b) == [t |-> "boolean", s |-> IF b THEN "true" ELSE "false", n |-> 0, m |-> 0]
Null == [t |-> "null", s |-> "", n |-> 0, m |-> 0]
Arr(elem, len) == [t |-> "array", s |-> elem, n |-> len, m |-> 0]
Viewport(w, h) == [t |-> "object", s |-> "", n |-> w, m |-> h]

IsString(v) == v.t = "string"
IsNumber(v) == v.t = "number" /\ v.s # "NaN"

\* zod's getParsedType: NaN is its own parsed type, "nan".
ParsedType(v) == IF v.t = "number" /\ v.s = "NaN" THEN "nan" ELSE v.t

\* v > k and v >= k for a number that may be Infinity.
Greater(v, k) == IF v.s = "Infinity" THEN TRUE ELSE v.n > k
AtLeast(v, k) == IF v.s = "Infinity" THEN TRUE ELSE v.n >= k
AtMost(v, k) == IF v.s = "Infinity" THEN FALSE ELSE v.n <= k

\* String(x), as parseCommand applies it to the id it found.
String(v) ==
  CASE v.t = "string" -> v.s
    [] v.t = "number" -> IF v.s = "" THEN ToString(v.n) ELSE v.s
    [] v.t = "boolean" -> v.s
    [] v.t = "null" -> "null"
    [] v.t = "array" -> IF v.n = 0 THEN "" ELSE "<elements>"
    [] OTHER -> "[object Object]"

(***************************************************************************)
(* The command schemas.  A schema is its action literal and its shape: the *)
(* keys in declaration order, each with its validator and whether it is    *)
(* optional.                                                               *)
(***************************************************************************)
Field(k, v, opt) == [k |-> k, v |-> v, opt |-> opt]
Required(k, v) == Field(k, v, FALSE)
Optional(k, v) == Field(k, v, TRUE)

baseCommandSchema == << Required("id", "string"), Required("action", "literal") >>

launchSchema ==
  [action |-> "launch",
   shape |-> baseCommandSchema \o
     << Optional("headless", "boolean"), Optional("viewport", "viewport"),
        Optional("browser", "enum") >>]

navigateSchema ==
  [action |-> "navigate",
   shape |-> baseCommandSchema \o
     << Required("url", "string1"), Optional("waitUntil", "enum") >>]

\* clickSchema with its selector declared optional.
clickSchema_selectorOptional ==
  [action |-> "click",
   shape |-> baseCommandSchema \o
     << Optional("selector", "string1"), Optional("button", "enum"),
        Optional("clickCount", "positive"), Optional("delay", "nonnegative") >>]

\* clickSchema whose selector is z.string() without .min(1).
clickSchema_emptySelector ==
  [action |-> "click",
   shape |-> baseCommandSchema \o
     << Required("selector", "string"), Optional("button", "enum"),
        Optional("clickCount", "positive"), Optional("delay", "nonnegative") >>]

clickSchema ==
  [action |-> "click",
   shape |-> baseCommandSchema \o
     << Required("selector", "string1"), Optional("button", "enum"),
        Optional("clickCount", "positive"), Optional("delay", "nonnegative") >>]

typeSchema ==
  [action |-> "type",
   shape |-> baseCommandSchema \o
     << Required("selector", "string1"), Required("text", "string"),
        Optional("delay", "nonnegative"), Optional("clear", "boolean") >>]

pressSchema ==
  [action |-> "press",
   shape |-> baseCommandSchema \o
     << Required("key", "string1"), Optional("selector", "string1") >>]

screenshotSchema ==
  [action |-> "screenshot",
   shape |-> baseCommandSchema \o
     << Optional("path", "string"), Optional("fullPage", "boolean"),
        Optional("selector", "string1"), Optional("format", "enum"),
        Optional("quality", "percent") >>]

snapshotSchema == [action |-> "snapshot", shape |-> baseCommandSchema]

evaluateSchema ==
  [action |-> "evaluate",
   shape |-> baseCommandSchema \o
     << Required("script", "string1"), Optional("args", "array") >>]

waitSchema ==
  [action |-> "wait",
   shape |-> baseCommandSchema \o
     << Optional("selector", "string1"), Optional("timeout", "positive"),
        Optional("state", "enum") >>]

\* scrollSchema without its amount key.
scrollSchema_noAmount ==
  [action |-> "scroll",
   shape |-> baseCommandSchema \o
     << Optional("selector", "string1"), Optional("x", "number"),
        Optional("y", "number"), Optional("direction", "enum") >>]

scrollSchema ==
  [action |-> "scroll",
   shape |-> baseCommandSchema \o
     << Optional("selector", "string1"), Optional("x", "number"),
        Optional("y", "number"), Optional("direction", "enum"),
        Optional("amount", "positive") >>]

selectSchema ==
  [action |-> "select",
   shape |-> baseCommandSchema \o
     << Required("selector", "string1"), Required("values", "stringOrStrings") >>]

hoverSchema ==
  [action |-> "hover",
   shape |-> baseCommandSchema \o << Required("selector", "string1") >>]

contentSchema ==
  [action |-> "content",
   shape |-> baseCommandSchema \o << Optional("selector", "string1") >>]

closeSchema == [action |-> "close", shape |-> baseCommandSchema]

tabNewSchema == [action |-> "tab_new", shape |-> baseCommandSchema]

tabListSchema == [action |-> "tab_list", shape |-> baseCommandSchema]

tabSwitchSchema ==
  [action |-> "tab_switch",
   shape |-> baseCommandSchema \o << Required("index", "nonnegative") >>]

tabCloseSchema ==
  [action |-> "tab_close",
   shape |-> baseCommandSchema \o << Optional("index", "nonnegative") >>]

windowNewSchema ==
  [action |-> "window_new",
   shape |-> baseCommandSchema \o << Optional("viewport", "viewport") >>]

\* z.discriminatedUnion('action', [...]): the options, in order.
\* The union without windowNewSchema.
commandSchema_noWindowNew ==
  << launchSchema, navigateSchema, clickSchema, typeSchema, pressSchema,
     screenshotSchema, snapshotSchema, evaluateSchema, waitSchema, scrollSchema,
     selectSchema, hoverSchema, contentSchema, closeSchema, tabNewSchema,
     tabListSchema, tabSwitchSchema, tabCloseSchema >>

commandSchema ==
  << launchSchema, navigateSchema, clickSchema, typeSchema, pressSchema,
     screenshotSchema, snapshotSchema, evaluateSchema, waitSchema, scrollSchema,
     selectSchema, hoverSchema, contentSchema, closeSchema, tabNewSchema,
     tabListSchema, tabSwitchSchema, tabCloseSchema, windowNewSchema >>

\* The values each z.enum field admits.
EnumValues(key) ==
  CASE key = "browser" -> {"chromium", "firefox", "webkit"}
    [] key = "waitUntil" -> {"load", "domcontentloaded", "networkidle"}
    [] key = "button" -> {"left", "right", "middle"}
    [] key = "format" -> {"png", "jpeg"}
    [] key = "state" -> {"attached", "detached", "visible", "hidden"}
    [] key = "direction" -> {"up", "down", "left", "right"}
    [] OTHER -> {}

Range(seq) == {seq[i] : i \in DOMAIN seq}
Actions == {commandSchema[i].action : i \in DOMAIN commandSchema}
SchemaOf(action) == CHOOSE sch \in Range(commandSchema) : sch.action = action
ShapeKeys(action) == {f.k : f \in Range(SchemaOf(action).shape)}

(***************************************************************************)
(* Validation (zod).  An issue is a path and a message; parseCommand       *)
(* renders the issues as "<path>: <message>" joined by ", ".               *)
(***************************************************************************)
Issue(path, message) == [path |-> path, message |-> message]

Expected(type, v) == "Expected " \o type \o ", received " \o ParsedType(v)

\* The issues one validator raises on a value that is present.
ValueIssues(kind, key, v) ==
  CASE kind = "string" ->
         IF IsString(v) THEN <<>> ELSE << Issue(key, Expected("string", v)) >>
    [] kind = "string1" ->
         IF ~IsString(v) THEN << Issue(key, Expected("string", v)) >>
         ELSE IF v.s = "" THEN << Issue(key, "String must contain at least 1 character(s)") >>
         ELSE <<>>
    [] kind = "number" ->
         IF IsNumber(v) THEN <<>> ELSE << Issue(key, Expected("number", v)) >>
    [] kind = "positive" ->
         IF ~IsNumber(v) THEN << Issue(key, Expected("number", v)) >>
         ELSE IF ~Greater(v, 0) THEN << Issue(key, "Number must be greater than 0") >>
         ELSE <<>>
    [] kind = "nonnegative" ->
         IF ~IsNumber(v) THEN << Issue(key, Expected("number", v)) >>
         ELSE IF ~AtLeast(v, 0)
              THEN << Issue(key, "Number must be greater than or equal to 0") >>
         ELSE <<>>
    [] kind = "percent" ->
         IF ~IsNumber(v) THEN << Issue(key, Expected("number", v)) >>
         ELSE (IF ~AtLeast(v, 0)
               THEN << Issue(key, "Number must be greater than or equal to 0") >>
               ELSE <<>>)
              \o (IF ~AtMost(v, 100)
                  THEN << Issue(key, "Number must be less than or equal to 100") >>
                  ELSE <<>>)
    [] kind = "boolean" ->
         IF v.t = "boolean" THEN <<>> ELSE << Issue(key, Expected("boolean", v)) >>
    [] kind = "enum" ->
         IF IsString(v) /\ v.s \in EnumValues(key) THEN <<>>
         ELSE << Issue(key, "Invalid enum value") >>
    [] kind = "array" ->
         IF v.t = "array" THEN <<>> ELSE << Issue(key, Expected("array", v)) >>
    [] kind = "stringOrStrings" ->
         IF IsString(v) \/ (v.t = "array" /\ (v.n = 0 \/ v.s = "string")) THEN <<>>
         ELSE << Issue(key, "Invalid input") >>
    [] kind = "viewport" ->
         IF v.t # "object" THEN << Issue(key, Expected("object", v)) >>
         ELSE (IF v.n > 0 THEN <<>>
               ELSE << Issue(key \o ".width", "Number must be greater than 0") >>)
              \o (IF v.m > 0 THEN <<>>
                  ELSE << Issue(key \o ".height", "Number must be greater than 0") >>)
    [] OTHER -> <<>>

\* One key of a shape: a required key that is absent is an issue, an optional
\* one is not.
FieldIssues(f, obj) ==
  IF f.k \notin DOMAIN obj
  THEN IF f.opt THEN <<>> ELSE << Issue(f.k, "Required") >>
  ELSE ValueIssues(f.v, f.k, obj[f.k])

RECURSIVE ShapeIssues(_, _)
ShapeIssues(shape, obj) ==
  IF shape = <<>> THEN <<>>
  ELSE FieldIssues(Head(shape), obj) \o ShapeIssues(Tail(shape), obj)

\* z.object(...).passthrough(): keys that are not in the shape are kept.
StripUnknown_passthrough(action, obj) == obj

\* z.object's default for keys that are not in the shape: they are stripped.
StripUnknown(action, obj) ==
  [k \in (DOMAIN obj \cap ShapeKeys(action)) |-> obj[k]]

(***************************************************************************)
(* JSON texts.  A text either does not parse (JSON.parse throws) or        *)
(* denotes a JSON value: an object (a function from its keys) or another   *)
(* value.                                                                  *)
(***************************************************************************)
EmptyObject == [k \in {} |-> Null]
JsonObject(o) == [top |-> "object", obj |-> o, val |-> Null]
JsonValue(v) == [top |-> v.t, obj |-> EmptyObject, val |-> v]
Text(json) == [syntax |-> "ok", json |-> json]
Garbage == [syntax |-> "bad", json |-> JsonValue(Null)]

\* JSON.stringify of one value: a number that is not finite is written null,
\* and so is an array element that is undefined or a number that is not finite.
JSONvalue(v) ==
  IF v.t = "number" /\ v.s # "" THEN Null
  ELSE IF v.t = "array" /\ v.n > 0 /\ v.s \in {"undefined", "NaN"} THEN Arr("null", v.n)
  ELSE v

\* JSON.stringify(command): the text of the object, key by key.
JSONstringify(cmd) == Text(JsonObject([k \in DOMAIN cmd |-> JSONvalue(cmd[k])]))

\* commandSchema.safeParse(json).
safeParse(json) ==
  IF json.top # "object"
  THEN [success |-> FALSE,
        errors |-> << Issue("", "Expected object, received " \o json.top) >>]
  ELSE IF ~("action" \in DOMAIN json.obj /\ IsString(json.obj["action"])
            /\ json.obj["action"].s \in Actions)
  THEN [success |-> FALSE,
        errors |-> << Issue("action", "Invalid discriminator value") >>]
  ELSE LET action == json.obj["action"].s
           errors == ShapeIssues(SchemaOf(action).shape, json.obj)
       IN IF errors # <<>>
          THEN [success |-> FALSE, errors |-> errors]
          ELSE [success |-> TRUE, data |-> StripUnknown(action, json.obj)]

RECURSIVE JoinErrors(_)
JoinErrors(errors) ==
  IF errors = <<>> THEN ""
  ELSE Head(errors).path \o ": " \o Head(errors).message
       \o (IF Len(errors) > 1 THEN ", " ELSE "") \o JoinErrors(Tail(errors))

\* The id is not passed on.
ExtractId_none(json) == <<>>

\* String(json?.id): no test that the value is an object with an id.
ExtractId_unguarded(json) ==
  IF json.top = "object" /\ "id" \in DOMAIN json.obj
  THEN << String(json.obj["id"]) >>
  ELSE << "undefined" >>

\* "Extract id for error responses if possible": the id found, as a sequence
\* of at most one string.
ExtractId(json) ==
  IF json.top = "object" /\ "id" \in DOMAIN json.obj
  THEN << String(json.obj["id"]) >>
  ELSE <<>>

\* The failure parseCommand returns: id is present only when one was found.
\* errors keeps the issues that the error text renders.
Failure(error, errors, id) ==
  IF id = <<>>
  THEN [success |-> FALSE, error |-> error, errors |-> errors]
  ELSE [success |-> FALSE, error |-> error, errors |-> errors, id |-> id[1]]

parseCommand(input) ==
  IF input.syntax = "bad"
  THEN Failure("Invalid JSON", <<>>, <<>>)
  ELSE LET json == input.json
           id == ExtractId(json)
           result == safeParse(json)
       IN IF ~result.success
          THEN Failure("Validation error: " \o JoinErrors(result.errors),
                       result.errors, id)
          ELSE [success |-> TRUE, command |-> result.data]

(***************************************************************************)
(* Responses (protocol.ts).  A response is a record: a key is present when *)
(* it is in the DOMAIN.  The id is the command's id value, passed through. *)
(***************************************************************************)
\* errorResponse that reports under an id of its own.
errorResponse_unknownId(id, error) == [id |-> Str("unknown"), success |-> FALSE, error |-> error]

\* errorResponse that also carries a data key.
errorResponse_withData(id, error) ==
  [id |-> id, success |-> FALSE, error |-> error, data |-> Null]

successResponse(id, data) == [id |-> id, success |-> TRUE, data |-> data]

errorResponse(id, error) == [id |-> id, success |-> FALSE, error |-> error]

(***************************************************************************)
(* The handlers.  A handler is the capability operations it awaits, in     *)
(* order, each with the argument it passes, and the data of the response   *)
(* it returns when none of them raises.  What the engine answers to        *)
(* operations on the page content (a title, bytes, a snapshot) is opaque.  *)
(* A handler that uses what the BrowserManager returned takes the manager  *)
(* as its second parameter: its pages, its active index, and the results   *)
(* of the operations the handler has awaited so far.                       *)
(***************************************************************************)
\* JavaScript truthiness of a member: absent (undefined), "", 0, NaN, false
\* and null are falsy.
Truthy(cmd, key) ==
  /\ key \in DOMAIN cmd
  /\ LET v == cmd[key]
     IN CASE v.t = "string" -> v.s # ""
          [] v.t = "number" -> ~(v.s = "" /\ v.n = 0) /\ v.s # "NaN"
          [] v.t = "boolean" -> v.s = "true"
          [] v.t = "null" -> FALSE
          [] OTHER -> TRUE

Defined(cmd, key) == key \in DOMAIN cmd

True == Bool(TRUE)

\* undefined, as the argument of an operation that is given none.
NoArg == [t |-> "undefined", s |-> "", n |-> 0, m |-> 0]
Op(op, arg) == [op |-> op, arg |-> arg]
Handler(ops, data) == [ops |-> [i \in DOMAIN ops |-> Op(ops[i], NoArg)], data |-> data]

\* The result of the i-th operation the handler awaited.
Result(browser, i) ==
  IF i \in DOMAIN browser.results THEN browser.results[i] ELSE [none |-> TRUE]

\* A page is its identity and the url it shows.
Page(id, url) == [id |-> id, url |-> url]

\* browser.getPage(): the active page.
getPage(browser) ==
  IF browser.active + 1 \in DOMAIN browser.pages THEN browser.pages[browser.active + 1]
  ELSE Page(0, "")

handleLaunch(command) == Handler(<< "launch" >>, [launched |-> True])

handleNavigate(command, browser) ==
  [ops |-> << Op("goto", command["url"]), Op("title", NoArg) >>,
   data |-> [url |-> Str(getPage(browser).url), title |-> Str("<title>")]]

handleClick(command) == Handler(<< "click" >>, [clicked |-> True])

handleType(command) ==
  Handler(IF Truthy(command, "clear") THEN << "fill", "type" >> ELSE << "type" >>,
          [typed |-> True])

handlePress(command) ==
  Handler(IF Truthy(command, "selector") THEN << "press" >> ELSE << "keyboard.press" >>,
          [pressed |-> True])

\* handleScreenshot that tests command.path !== undefined.
handleScreenshot_definedPath(command) ==
  IF Defined(command, "path")
  THEN [ops |-> << Op("screenshot", command["path"]) >>,
        data |-> [path |-> command["path"]]]
  ELSE [ops |-> << Op("screenshot", NoArg) >>, data |-> [base64 |-> Str("<bytes>")]]

\* The argument of screenshot is the path the engine is to write, if any.
handleScreenshot(command) ==
  IF Truthy(command, "path")
  THEN [ops |-> << Op("screenshot", command["path"]) >>,
        data |-> [path |-> command["path"]]]
  ELSE [ops |-> << Op("screenshot", NoArg) >>, data |-> [base64 |-> Str("<bytes>")]]

handleSnapshot(command) == Handler(<< "ariaSnapshot" >>, [snapshot |-> Str("<tree>")])

handleEvaluate(command) == Handler(<< "evaluate" >>, [result |-> Str("<value>")])

\* handleWait that answers without awaiting the timed wait.
handleWait_notAwaited(command) ==
  [ops |-> IF Truthy(command, "selector")
           THEN << Op("waitForSelector", command["selector"]) >>
           ELSE IF Truthy(command, "timeout") THEN << >>
           ELSE << Op("waitForLoadState", Str("load")) >>,
   data |-> [waited |-> True]]

handleWait(command) ==
  [ops |-> IF Truthy(command, "selector")
           THEN << Op("waitForSelector", command["selector"]) >>
           ELSE IF Truthy(command, "timeout")
           THEN << Op("waitForTimeout", command["timeout"]) >>
           ELSE << Op("waitForLoadState", Str("load")) >>,
   data |-> [waited |-> True]]

\* a ?? b
Coalesce(cmd, key, default) ==
  IF key \in DOMAIN cmd /\ cmd[key].t # "null" THEN cmd[key] ELSE default

\* -a
Negate(v) ==
  IF v.s = "" THEN Num(0 - v.n)
  ELSE IF v.s = "Infinity" THEN [v EXCEPT !.s = "-Infinity"]
  ELSE IF v.s = "-Infinity" THEN [v EXCEPT !.s = "Infinity"]
  ELSE v

\* The call of scrollBy that is made, as text: `scrollBy(${x}, ${y})`.
scrollBy(x, y) == Str("scrollBy(" \o String(x) \o ", " \o String(y) \o ")")

\* The deltas of a scroll of the page.
deltaX(command) ==
  IF Truthy(command, "direction") /\ command["direction"].s = "left"
  THEN Negate(Coalesce(command, "amount", Num(100)))
  ELSE IF Truthy(command, "direction") /\ command["direction"].s = "right"
  THEN Coalesce(command, "amount", Num(100))
  ELSE Coalesce(command, "x", Num(0))

\* deltaY with up and down exchanged.
deltaY_upIsDown(command) ==
  IF Truthy(command, "direction") /\ command["direction"].s = "up"
  THEN Coalesce(command, "amount", Num(100))
  ELSE IF Truthy(command, "direction") /\ command["direction"].s = "down"
  THEN Negate(Coalesce(command, "amount", Num(100)))
  ELSE Coalesce(command, "y", Num(0))

deltaY(command) ==
  IF Truthy(command, "direction") /\ command["direction"].s = "up"
  THEN Negate(Coalesce(command, "amount", Num(100)))
  ELSE IF Truthy(command, "direction") /\ command["direction"].s = "down"
  THEN Coalesce(command, "amount", Num(100))
  ELSE Coalesce(command, "y", Num(0))

\* With a selector the element is scrolled into view and, when x or y is
\* given, scrolled by them; the direction and the amount are not looked at.
\* Without one the page is scrolled by the deltas.
handleScroll(command) ==
  [ops |-> IF Truthy(command, "selector")
           THEN << Op("scrollIntoViewIfNeeded", command["selector"]) >>
                \o (IF Defined(command, "x") \/ Defined(command, "y")
                    THEN << Op("element.scrollBy",
                               scrollBy(Coalesce(command, "x", Num(0)),
                                        Coalesce(command, "y", Num(0)))) >>
                    ELSE <<>>)
           ELSE << Op("window.scrollBy", scrollBy(deltaX(command), deltaY(command))) >>,
   data |-> [scrolled |-> True]]

handleSelect(command) ==
  Handler(<< "selectOption" >>,
          [selected |-> IF command["values"].t = "array" THEN command["values"]
                        ELSE Arr("string", 1)])

handleHover(command) == Handler(<< "hover" >>, [hovered |-> True])

handleContent(command) ==
  Handler(IF Truthy(command, "selector") THEN << "innerHTML" >> ELSE << "content" >>,
          [html |-> Str("<html>")])

\* handleClose that answers without awaiting browser.close().
handleClose_notAwaited(command) == Handler(<< >>, [closed |-> True])

handleClose(command) == Handler(<< "close" >>, [closed |-> True])

handleTabNew(command, browser) ==
  [ops |-> << Op("newTab", NoArg) >>, data |-> Result(browser, 1)]

\* handleTabList that reports the first tab as the active one.
handleTabList_activeZero(command, browser) ==
  [ops |-> << Op("listTabs", NoArg) >>,
   data |-> [tabs |-> Result(browser, 1), active |-> Num(0)]]

\* tabs is what listTabs returned, active is getActiveIndex() after it.
handleTabList(command, browser) ==
  [ops |-> << Op("listTabs", NoArg) >>,
   data |-> [tabs |-> Result(browser, 1), active |-> Num(browser.active)]]

\* { ...result, title }: result is what switchTo returned.
handleTabSwitch(command, browser) ==
  [ops |-> << Op("switchTo", command["index"]), Op("title", NoArg) >>,
   data |-> LET result == Result(browser, 1)
            IN IF "index" \in DOMAIN result
               THEN [index |-> result.index, url |-> result.url, title |-> Str("<title>")]
               ELSE [title |-> Str("<title>")]]

\* handleTabClose that closes the first tab when it is given no index.
handleTabClose_firstTab(command, browser) ==
  [ops |-> << Op("closeTab", IF Defined(command, "index") THEN command["index"]
                              ELSE Num(0)) >>,
   data |-> Result(browser, 1)]

\* command.index is undefined when the command has none.
handleTabClose(command, browser) ==
  [ops |-> << Op("closeTab", IF Defined(command, "index") THEN command["index"]
                              ELSE NoArg) >>,
   data |-> Result(browser, 1)]

handleWindowNew(command, browser) ==
  [ops |-> << Op("newWindow", IF Defined(command, "viewport") THEN command["viewport"]
                               ELSE NoArg) >>,
   data |-> Result(browser, 1)]

(***************************************************************************)
(* executeCommand.  A call is a record: pc is "running" while the handler  *)
(* awaits its operations (todo) and "done" once the call has settled;      *)
(* settled is how: "returned" with a response, or "thrown".  raised        *)
(* records that an operation of the call raised, results what the          *)
(* operations awaited so far returned.                                     *)
(***************************************************************************)
NoResponse == [success |-> FALSE]
NotCalled == [pc |-> "idle", command |-> EmptyObject, todo |-> <<>>,
              settled |-> "", response |-> NoResponse, raised |-> FALSE,
              results |-> <<>>]
Running(command, todo) ==
  [pc |-> "running", command |-> command, todo |-> todo,
   settled |-> "", response |-> NoResponse, raised |-> FALSE, results |-> <<>>]
Returned(command, response) ==
  [pc |-> "done", command |-> command, todo |-> <<>>,
   settled |-> "returned", response |-> response, raised |-> FALSE, results |-> <<>>]
Thrown(command) ==
  [pc |-> "done", command |-> command, todo |-> <<>>,
   settled |-> "thrown", response |-> NoResponse, raised |-> FALSE, results |-> <<>>]

\* The BrowserManager as a handler sees it.
Seen(b, results) == [pages |-> b.pages, active |-> b.active, results |-> results]
Unseen == [pages |-> << Page(0, "") >>, active |-> 0, results |-> <<>>]

\* The switch without the case 'launch'.
SwitchCases_noLaunch ==
  {"navigate", "click", "type", "press", "screenshot", "snapshot",
   "evaluate", "wait", "scroll", "select", "hover", "content", "close",
   "tab_new", "tab_list", "tab_switch", "tab_close", "window_new"}

\* The cases of the switch.
SwitchCases ==
  {"launch", "navigate", "click", "type", "press", "screenshot", "snapshot",
   "evaluate", "wait", "scroll", "select", "hover", "content", "close",
   "tab_new", "tab_list", "tab_switch", "tab_close", "window_new"}

HandlerOf(command, browser) ==
  LET action == command["action"].s
  IN CASE action = "launch" -> handleLaunch(command)
       [] action = "navigate" -> handleNavigate(command, browser)
       [] action = "click" -> handleClick(command)
       [] action = "type" -> handleType(command)
       [] action = "press" -> handlePress(command)
       [] action = "screenshot" -> handleScreenshot(command)
       [] action = "snapshot" -> handleSnapshot(command)
       [] action = "evaluate" -> handleEvaluate(command)
       [] action = "wait" -> handleWait(command)
       [] action = "scroll" -> handleScroll(command)
       [] action = "select" -> handleSelect(command)
       [] action = "hover" -> handleHover(command)
       [] action = "content" -> handleContent(command)
       [] action = "close" -> handleClose(command)
       [] action = "tab_new" -> handleTabNew(command, browser)
       [] action = "tab_list" -> handleTabList(command, browser)
       [] action = "tab_switch" -> handleTabSwitch(command, browser)
       [] action = "tab_close" -> handleTabClose(command, browser)
       [] action = "window_new" -> handleWindowNew(command, browser)

\* The fault is not caught: "return handleX(...)" without await, or no try.
executeCommandCatch_rethrows(command, message) == Thrown(command)

\* catch (error): the fault becomes an error response under the command's id.
executeCommandCatch(command, message) ==
  Returned(command, errorResponse(command["id"], message))

\* Entering executeCommand: the switch picks the handler, or the default case
\* answers at once.
executeCommandEnter(command) ==
  IF command["action"].s \in SwitchCases
  THEN Running(command, HandlerOf(command, Unseen).ops)
  ELSE Returned(command,
                errorResponse(command["id"], "Unknown action: " \o command["action"].s))

\* The awaited operation settles: it resolves and the handler goes on, or it
\* rejects and the catch answers.
executeCommandAwait(call, resolves, result) ==
  IF resolves
  THEN [call EXCEPT !.todo = Tail(call.todo), !.results = Append(call.results, result)]
  ELSE [executeCommandCatch(call.command, "fault in " \o Head(call.todo).op)
          EXCEPT !.raised = TRUE]

\* The handler returns its success response.
executeCommandReturn(call, browser) ==
  Returned(call.command,
           successResponse(call.command["id"],
                           HandlerOf(call.command, Seen(browser, call.results)).data))

(***************************************************************************)
(* The BrowserManager: the automation capability with its ordered          *)
(* collection of open pages and its active index (counted from 0).  It is  *)
(* modelled from the capability contract: one initial page; a new tab or   *)
(* window is appended and becomes the active page; switching and closing   *)
(* check that the index exists; the last page cannot be closed; after a    *)
(* removal the active index is the lowest remaining index.  created counts *)
(* the pages opened so far and is the identity of the newest.              *)
(***************************************************************************)
\* Pages a browser opens in its lifetime.
MaxCreated == 3

NewBrowser ==
  [pages |-> << Page(1, "about:blank") >>, active |-> 0, created |-> 1, open |-> TRUE]

\* What an operation does: whether the manager carries it out (it throws
\* otherwise), the manager after it, and what it returns.
Outcome(ok, b, result) == [ok |-> ok, browser |-> b, result |-> result]
Nothing == [none |-> TRUE]

IsIndex(b, v) == v.t = "number" /\ v.s = "" /\ v.n \in 0..(Len(b.pages) - 1)

launch(b) ==
  Outcome(TRUE,
          IF b.open THEN b
          ELSE [pages |-> << Page(b.created + 1, "about:blank") >>, active |-> 0,
                created |-> b.created + 1, open |-> TRUE],
          Nothing)

\* The active page loads the url it is given.
goto(b, url) ==
  IF b.open /\ url.t = "string"
  THEN Outcome(TRUE, [b EXCEPT !.pages[b.active + 1].url = url.s], Nothing)
  ELSE Outcome(FALSE, b, Nothing)

newTab(b) ==
  Outcome(b.open /\ b.created < MaxCreated,
          [b EXCEPT !.pages = Append(b.pages, Page(b.created + 1, "about:blank")),
                    !.active = Len(b.pages),
                    !.created = b.created + 1],
          [index |-> Num(Len(b.pages)), total |-> Num(Len(b.pages) + 1)])

newWindow(b, viewport) == newTab(b)

TabInfo(b, i) ==
  [index |-> Num(i - 1), url |-> Str(b.pages[i].url), title |-> Str("<title>"),
   active |-> Bool(i - 1 = b.active)]

listTabs(b) == Outcome(b.open, b, [i \in DOMAIN b.pages |-> TabInfo(b, i)])

\* switchTo that falls back to the first page when the index names none.
switchTo_fallsBack(b, index) ==
  IF b.open /\ IsIndex(b, index)
  THEN Outcome(TRUE, [b EXCEPT !.active = index.n],
               [index |-> index, url |-> Str(b.pages[index.n + 1].url)])
  ELSE IF b.open
  THEN Outcome(TRUE, [b EXCEPT !.active = 0],
               [index |-> Num(0), url |-> Str(b.pages[1].url)])
  ELSE Outcome(FALSE, b, Nothing)

switchTo(b, index) ==
  IF b.open /\ IsIndex(b, index)
  THEN Outcome(TRUE, [b EXCEPT !.active = index.n],
               [index |-> index, url |-> Str(b.pages[index.n + 1].url)])
  ELSE Outcome(FALSE, b, Nothing)

RemoveAt(seq, i) == SubSeq(seq, 1, i - 1) \o SubSeq(seq, i + 1, Len(seq))

\* closeTab that leaves the active index as it was.
closeTab_keepsActive(b, index) ==
  LET target == IF index = NoArg THEN Num(b.active) ELSE index
  IN IF b.open /\ IsIndex(b, target) /\ Len(b.pages) > 1
     THEN Outcome(TRUE,
                  [b EXCEPT !.pages = RemoveAt(b.pages, target.n + 1)],
                  [closed |-> target, remaining |-> Num(Len(b.pages) - 1)])
     ELSE Outcome(FALSE, b, Nothing)

\* Without an index the active tab is the target.
closeTab(b, index) ==
  LET target == IF index = NoArg THEN Num(b.active) ELSE index
  IN IF b.open /\ IsIndex(b, target) /\ Len(b.pages) > 1
     THEN Outcome(TRUE,
                  [b EXCEPT !.pages = RemoveAt(b.pages, target.n + 1), !.active = 0],
                  [closed |-> target, remaining |-> Num(Len(b.pages) - 1)])
     ELSE Outcome(FALSE, b, Nothing)

close(b) == Outcome(TRUE, [b EXCEPT !.pages = <<>>, !.active = 0, !.open = FALSE], Nothing)

\* The operation a handler awaits, carried out on the manager.  An operation
\* on the content of the active page leaves the manager as it is.
Invoke(b, op) ==
  CASE op.op = "launch" -> launch(b)
    [] op.op = "goto" -> goto(b, op.arg)
    [] op.op = "newTab" -> newTab(b)
    [] op.op = "newWindow" -> newWindow(b, op.arg)
    [] op.op = "listTabs" -> listTabs(b)
    [] op.op = "switchTo" -> switchTo(b, op.arg)
    [] op.op = "closeTab" -> closeTab(b, op.arg)
    [] op.op = "close" -> close(b)
    [] OTHER -> Outcome(b.open, b, Nothing)

(***************************************************************************)
(* State.  One message through the protocol: a client-side command object  *)
(* (origin) is serialized to a text (wire), which parseCommand turns into  *)
(* a result (parsed), whose command, if any, is handed to the dispatcher   *)
(* (handed).  A text may also arrive from a sender that wrote it by hand,  *)
(* and a command may be built by the command line from its arguments       *)
(* (argv: the url given to open, or "" when the command line is not used). *)
(***************************************************************************)
VARIABLES pstage, fromClient, argv, origin, wire, parsed, handed

pvars == << pstage, fromClient, argv, origin, wire, parsed, handed >>

(***************************************************************************)
(* State of a daemon.  Each connection carries at most one command.        *)
(*   cstate[c]   where connection c is: "closed" (not yet made),           *)
(*               "accepted", "queued" (its command read and waiting),      *)
(*               "executing", "answered", "refused" (its text was not a    *)
(*               command), "dropped" (the daemon stopped first)            *)
(*   queue       the connections whose commands wait, in arrival order     *)
(*   gate        the connection that holds the serialization gate, or 0    *)
(*   daemon      "Listening", "Busy" or "Stopped"                          *)
(*   exec[c]     the call of executeCommand made for connection c          *)
(*   response[c] the response written to connection c                      *)
(*   oplog       the capability operations invoked so far, in order, each  *)
(*               with the connection whose command invoked it              *)
(*   arrivals    the connections in the order their commands were read     *)
(*   starts      the connections in the order their executions began       *)
(*   browser     the BrowserManager the commands are executed against      *)
(*   before      the BrowserManager as it was when the call of             *)
(*               executeCommand in progress began                          *)
(*   last        the call of executeCommand that settled before the one in *)
(*               progress, with the BrowserManager as it was when it began *)
(***************************************************************************)
VARIABLES cstate, queue, gate, daemon, exec, response, oplog, arrivals, starts,
          browser, before, last

dvars == << cstate, queue, gate, daemon, exec, response, oplog, arrivals, starts,
            browser, before, last >>

(***************************************************************************)
(* State of the machine the sessions live on.                              *)
(*   tmp         the files of the temporary directory: a function from     *)
(*               file names to contents                                    *)
(*   procs       the process table: what runs under each process id        *)
(*   sockets     the process listening on each transport address, or 0     *)
(*   client      the invocations of the command line, each under a session *)
(*               name: where it is in main and in send, and what it got    *)
(*   pruned      the session names whose entry a resolve found stale, and  *)
(*               under which no daemon has registered since                *)
(***************************************************************************)
VARIABLES tmp, procs, sockets, client, pruned

rvars == << tmp, procs, sockets, client, pruned >>

(***************************************************************************)
(* One run of the command line: the arguments it was started with, the     *)
(* command it built, what send gave back and the code it exited with.      *)
(***************************************************************************)
VARIABLES cli

cvars == << cli >>

vars == << pvars, dvars, rvars, cvars >>

\* Connections a daemon is exercised with.
MaxConns == 2
Conns == 1..MaxConns

NoResult == [success |-> FALSE, error |-> "", errors |-> <<>>]
NoCall == [command |-> EmptyObject, response |-> NoResponse, before |-> NewBrowser]

(***************************************************************************)
(* The command types (types.ts).  A type is its action and its members,    *)
(* each with its TypeScript type and whether it is optional ("?").         *)
(***************************************************************************)
Member(k, ts, opt) == [k |-> k, ts |-> ts, opt |-> opt]

BaseCommand == << Member("id", "string", FALSE), Member("action", "string", FALSE) >>

LaunchCommand ==
  [action |-> "launch",
   members |-> BaseCommand \o
     << Member("headless", "boolean", TRUE), Member("viewport", "viewport", TRUE),
        Member("browser", "literal", TRUE) >>]

NavigateCommand ==
  [action |-> "navigate",
   members |-> BaseCommand \o
     << Member("url", "string", FALSE), Member("waitUntil", "literal", TRUE) >>]

ClickCommand ==
  [action |-> "click",
   members |-> BaseCommand \o
     << Member("selector", "string", FALSE), Member("button", "literal", TRUE),
        Member("clickCount", "number", TRUE), Member("delay", "number", TRUE) >>]

TypeCommand ==
  [action |-> "type",
   members |-> BaseCommand \o
     << Member("selector", "string", FALSE), Member("text", "string", FALSE),
        Member("delay", "number", TRUE), Member("clear", "boolean", TRUE) >>]

PressCommand ==
  [action |-> "press",
   members |-> BaseCommand \o
     << Member("key", "string", FALSE), Member("selector", "string", TRUE) >>]

ScreenshotCommand ==
  [action |-> "screenshot",
   members |-> BaseCommand \o
     << Member("path", "string", TRUE), Member("fullPage", "boolean", TRUE),
        Member("selector", "string", TRUE), Member("format", "literal", TRUE),
        Member("quality", "number", TRUE) >>]

SnapshotCommand == [action |-> "snapshot", members |-> BaseCommand]

EvaluateCommand ==
  [action |-> "evaluate",
   members |-> BaseCommand \o
     << Member("script", "string", FALSE), Member("args", "array", TRUE) >>]

WaitCommand ==
  [action |-> "wait",
   members |-> BaseCommand \o
     << Member("selector", "string", TRUE), Member("timeout", "number", TRUE),
        Member("state", "literal", TRUE) >>]

ScrollCommand ==
  [action |-> "scroll",
   members |-> BaseCommand \o
     << Member("selector", "string", TRUE), Member("x", "number", TRUE),
        Member("y", "number", TRUE), Member("direction", "literal", TRUE),
        Member("amount", "number", TRUE) >>]

SelectCommand ==
  [action |-> "select",
   members |-> BaseCommand \o
     << Member("selector", "string", FALSE), Member("values", "stringOrStrings", FALSE) >>]

HoverCommand ==
  [action |-> "hover",
   members |-> BaseCommand \o << Member("selector", "string", FALSE) >>]

ContentCommand ==
  [action |-> "content",
   members |-> BaseCommand \o << Member("selector", "string", TRUE) >>]

CloseCommand == [action |-> "close", members |-> BaseCommand]

TabNewCommand == [action |-> "tab_new", members |-> BaseCommand]

TabListCommand == [action |-> "tab_list", members |-> BaseCommand]

TabSwitchCommand ==
  [action |-> "tab_switch",
   members |-> BaseCommand \o << Member("index", "number", FALSE) >>]

TabCloseCommand ==
  [action |-> "tab_close",
   members |-> BaseCommand \o << Member("index", "number", TRUE) >>]

WindowNewCommand ==
  [action |-> "window_new",
   members |-> BaseCommand \o << Member("viewport", "viewport", TRUE) >>]

\* The union of all command types.
Command ==
  { LaunchCommand, NavigateCommand, ClickCommand, TypeCommand, PressCommand,
    ScreenshotCommand, SnapshotCommand, EvaluateCommand, WaitCommand,
    ScrollCommand, SelectCommand, HoverCommand, ContentCommand, CloseCommand,
    TabNewCommand, TabListCommand, TabSwitchCommand, TabCloseCommand,
    WindowNewCommand }

ActionTags == {ty.action : ty \in Command}
TypeOf(action) == CHOOSE ty \in Command : ty.action = action
MemberKeys(action) == {f.k : f \in Range(TypeOf(action).members)}
RequiredMembers(action) ==
  {f.k : f \in {g \in Range(TypeOf(action).members) : ~g.opt}}
MemberType(action, key) ==
  (CHOOSE f \in Range(TypeOf(action).members) : f.k = key).ts

\* Whether a value is of a member's TypeScript type.  number admits NaN and
\* Infinity; a literal union admits its strings.
OfType(ts, key, v) ==
  CASE ts = "string" -> IsString(v)
    [] ts = "number" -> v.t = "number"
    [] ts = "boolean" -> v.t = "boolean"
    [] ts = "literal" -> IsString(v) /\ v.s \in EnumValues(key)
    [] ts = "array" -> v.t = "array"
    [] ts = "stringOrStrings" -> IsString(v) \/ (v.t = "array" /\ (v.n = 0 \/ v.s = "string"))
    [] ts = "viewport" -> v.t = "object"
    [] OTHER -> FALSE

HasTag(obj) ==
  /\ "action" \in DOMAIN obj
  /\ IsString(obj["action"])
  /\ obj["action"].s \in ActionTags

\* An object that is a value of the Command type: it has a tag, the members the
\* tag requires, no key the tag does not define, and each value is of its type.
IsCommand(obj) ==
  /\ HasTag(obj)
  /\ LET action == obj["action"].s
     IN /\ RequiredMembers(action) \subseteq DOMAIN obj
        /\ DOMAIN obj \subseteq MemberKeys(action)
        /\ \A k \in DOMAIN obj \ {"action"} : OfType(MemberType(action, k), k, obj[k])

(***************************************************************************)
(* The commands and texts the protocol is exercised on.                    *)
(***************************************************************************)
Ids == {"a", ""}

\* How many required keys are removed from a command at once.
MaxDropped == 2

\* An ordinary value of each member.
SampleValue(action, key, id) ==
  CASE key = "id" -> Str(id)
    [] key = "action" -> Str(action)
    [] key \in {"selector", "url", "key", "script", "path"} -> Str("#main")
    [] key = "text" -> Str("")
    [] key \in {"x", "y"} -> Num(-1)
    [] key \in {"clickCount", "timeout", "amount"} -> Num(2)
    [] key \in {"delay", "index"} -> Num(0)
    [] key = "quality" -> Num(100)
    [] key \in {"headless", "fullPage", "clear"} -> Bool(TRUE)
    [] key \in {"browser", "waitUntil", "button", "format", "state", "direction"} ->
         Str(CHOOSE e \in EnumValues(key) : TRUE)
    [] key = "args" -> Arr("number", 1)
    [] key = "values" -> Arr("string", 2)
    [] key = "viewport" -> Viewport(1, 1)
    [] OTHER -> Null

\* The command of an action that has exactly the keys K, each with its sample value.
CommandWith(action, K, id) == [k \in K |-> SampleValue(action, k, id)]
MinimalCommand(action, id) == CommandWith(action, RequiredMembers(action), id)
FullCommand(action, id) == CommandWith(action, MemberKeys(action), id)
BaseCommands(action) ==
  {MinimalCommand(action, id) : id \in Ids} \cup {FullCommand(action, id) : id \in Ids}

Without(obj, K) == [k \in DOMAIN obj \ K |-> obj[k]]
With(obj, key, v) == [k \in DOMAIN obj \cup {key} |-> IF k = key THEN v ELSE obj[k]]

\* Other values of a member: of its type but odd (empty, out of range, not
\* finite), or of another type.
OddValues(ts) ==
  CASE ts \in {"string", "literal"} ->
         {Str(""), Str("bogus"), Num(7), Null, Bool(FALSE), Viewport(1, 1)}
    [] ts = "number" ->
         {Num(-1), Num(0), Num(1), Num(101), Infinity, NaN, Null, Str("1")}
    [] ts = "boolean" -> {Bool(FALSE), Null, Str("true")}
    [] ts = "array" ->
         {Null, Str("x"), Arr("string", 0), Arr("undefined", 1), Arr("NaN", 2), Arr("null", 1)}
    [] ts = "stringOrStrings" -> {Null, Str(""), Str("v"), Arr("number", 1), Arr("string", 0)}
    [] ts = "viewport" -> {Null, Viewport(0, 1), Viewport(1, 0), Viewport(2, 3)}
    [] OTHER -> {Null}

\* Keys that the type of the action does not define: one no action has, two
\* that other actions have.
UnknownKeys(action) == {"extra", "url", "index"} \ MemberKeys(action)

\* The objects a client may build: the base commands and the ones that differ
\* from a base command in one value.
ClientCommands ==
  UNION {
    BaseCommands(a)
      \cup UNION {{With(FullCommand(a, "a"), k, v) : v \in OddValues(MemberType(a, k))}
                   : k \in MemberKeys(a) \ {"id", "action"}}
    : a \in ActionTags }

\* Scroll commands with every combination of the optional members and every
\* direction; wait commands with every combination of theirs; screenshot
\* commands with no path, an empty path and a path, of the page and of an
\* element.
ScrollCommands ==
  {[k \in {"id", "action"} \cup K |->
      CASE k = "direction" -> Str(d)
        [] k = "x" -> Num(7)
        [] OTHER -> SampleValue("scroll", k, "a")] :
     K \in SUBSET {"selector", "x", "y", "direction", "amount"},
     d \in EnumValues("direction")}

WaitCommands ==
  {CommandWith("wait", {"id", "action"} \cup K, "a") :
     K \in SUBSET {"selector", "timeout", "state"}}

ScreenshotCommands ==
  {Without(With(FullCommand("screenshot", "a"), "path", path), K) :
     path \in {Str(""), Str("page.png")},
     K \in SUBSET {"path", "selector"}}

\* JSON.parse never yields a number that is not finite, nor undefined.
OnWire(v) == JSONvalue(v) = v

\* The objects a sender may write by hand: valid ones, ones that lack required
\* keys, ones that carry unknown keys, ones with one odd value, ones whose
\* action is no tag.
WireObjects ==
  UNION {
    BaseCommands(a)
      \cup {Without(c, K) : c \in BaseCommands(a),
                            K \in {L \in SUBSET RequiredMembers(a) :
                                     Cardinality(L) \in 1..MaxDropped}}
      \cup {With(c, k, Str("x")) : c \in BaseCommands(a), k \in UnknownKeys(a)}
      \cup {With(MinimalCommand("navigate", "a"), "url", Str(u)) :
               u \in {"example.com", "https://example.com"}}
      \cup UNION {{With(MinimalCommand(a, "a"), k, v)
                      : v \in {w \in OddValues(MemberType(a, k)) : OnWire(w)}}
                   : k \in RequiredMembers(a)}
    : a \in ActionTags }

WireTexts ==
  {Garbage}
    \cup {Text(JsonValue(v)) : v \in {Null, Num(1), Str("id"), Bool(TRUE), Arr("string", 1)}}
    \cup {Text(JsonObject(o)) : o \in WireObjects}

(***************************************************************************)
(* The command line (main): the navigate command it builds from the url    *)
(* it is given.                                                            *)
(***************************************************************************)
\* url.startsWith(prefix)
startsWith(str, prefix) ==
  Len(str) >= Len(prefix) /\ SubSeq(str, 1, Len(prefix)) = prefix

\* "Auto-add https if missing"
fullUrl(url) == IF startsWith(url, "http") THEN url ELSE "https://" \o url

\* The urls given to open; "" is no url at all.
CliUrls == {"", "example.com", "https://example.com", "http://example.com", "httpbin.org/get"}

(***************************************************************************)
(* Sessions.  A session is a name; its daemon keeps a record in the        *)
(* temporary directory, veb-<name>.pid, that holds its process id and its  *)
(* transport address, and listens on an address derived from the name.     *)
(* The command line lists sessions from these files (listSessions); the    *)
(* registry operations of the client and the daemon are modelled from the  *)
(* Session Registry contract.                                              *)
(***************************************************************************)
Sessions == {"default", "agent1"}

\* Process ids of the machine.
MaxPids == 2
Pids == 1..MaxPids

\* Two invocations of the command line.
Clients == {1, 2}

PidFile(name) == "veb-" \o name \o ".pid"

\* One address for every session.
SocketPath_shared(name) == "veb.sock"

SocketPath(name) == "veb-" \o name \o ".sock"

Addresses == {SocketPath(name) : name \in Sessions}

endsWith(str, suffix) ==
  Len(str) >= Len(suffix) /\ SubSeq(str, Len(str) - Len(suffix) + 1, Len(str)) = suffix

\* file.match(/^veb-(.+)\.pid$/): the name captured, as a sequence of at most
\* one string.
match(file) ==
  IF startsWith(file, "veb-") /\ endsWith(file, ".pid") /\ Len(file) > 8
  THEN << SubSeq(file, 5, Len(file) - 4) >>
  ELSE <<>>

\* The content of a record, and of a file that is none.
Record(pid, address) == [pid |-> ToString(pid), address |-> address]
Junk == [pid |-> "", address |-> ""]

\* Files of the directory that are no records of sessions.
JunkFiles == [f \in {"veb-.pid", "veb-default.sock", "x.pid", "veb-old.pid"} |-> Junk]

\* parseInt(text, 10): the number made of the digits the text starts with,
\* after blanks and a sign, or NaN when it starts with none.
Digits == << "0", "1", "2", "3", "4", "5", "6", "7", "8", "9" >>
IsDigit(ch) == \E d \in DOMAIN Digits : Digits[d] = ch
DigitValue(ch) == (CHOOSE d \in DOMAIN Digits : Digits[d] = ch) - 1
CharAt(text, i) == IF i \in 1..Len(text) THEN SubSeq(text, i, i) ELSE ""

RECURSIVE SkipBlanks(_, _)
SkipBlanks(text, i) == IF CharAt(text, i) = " " THEN SkipBlanks(text, i + 1) ELSE i

RECURSIVE ReadDigits(_, _, _)
ReadDigits(text, i, value) ==
  IF IsDigit(CharAt(text, i))
  THEN ReadDigits(text, i + 1, value * 10 + DigitValue(CharAt(text, i)))
  ELSE value

parseInt(text) ==
  LET start == SkipBlanks(text, 1)
      signed == CharAt(text, start) \in {"-", "+"}
      first == IF signed THEN start + 1 ELSE start
  IN IF IsDigit(CharAt(text, first))
     THEN Num((IF CharAt(text, start) = "-" THEN -1 ELSE 1) * ReadDigits(text, first, 0))
     ELSE NaN

\* What runs under a process id: nothing, a daemon of a session (starting or
\* listening), another process of the same user, a process of another user.
Free == [kind |-> "free", session |-> "", phase |-> ""]
Daemon(name, phase) == [kind |-> "daemon", session |-> name, phase |-> phase]
Other == [kind |-> "other", session |-> "", phase |-> ""]
Foreign == [kind |-> "foreign", session |-> "", phase |-> ""]

\* process.kill(pid, 0) returns: pid is a number, the process exists and may be
\* signalled.  It throws otherwise.
kill0(table, pid) ==
  /\ pid.t = "number" /\ pid.s = ""
  /\ pid.n \in Pids
  /\ table[pid.n].kind \in {"daemon", "other"}

\* The process exists.
Alive(table, pid) ==
  /\ pid.t = "number" /\ pid.s = ""
  /\ pid.n \in Pids
  /\ table[pid.n].kind # "free"

\* listSessions that lists every record, without probing the process.
listSessions_noProbe(files, table, readable) ==
  IF ~readable THEN {}
  ELSE {match(f)[1] : f \in {g \in DOMAIN files : match(g) # <<>>}}

\* listSessions: the names of the pid files whose process can be signalled.
\* A file whose process cannot is skipped and left where it is.  When the
\* directory cannot be read the list is empty.
listSessions(files, table, readable) ==
  IF ~readable THEN {}
  ELSE {match(f)[1] :
          f \in {g \in DOMAIN files :
                   match(g) # <<>> /\ kill0(table, parseInt(files[g].pid))}}

\* resolve that leaves a stale record in place.
resolve_keepsStale(files, table, name) ==
  LET file == PidFile(name)
  IN IF file \notin DOMAIN files
     THEN [address |-> <<>>, files |-> files, stale |-> FALSE]
     ELSE IF Alive(table, parseInt(files[file].pid))
     THEN [address |-> << files[file].address >>, files |-> files, stale |-> FALSE]
     ELSE [address |-> <<>>, files |-> files, stale |-> TRUE]

\* resolve(name): the address of the record when its process is alive;
\* NotFound (no address) when there is no record or its process is dead, and
\* the dead record is deleted.
resolve(files, table, name) ==
  LET file == PidFile(name)
  IN IF file \notin DOMAIN files
     THEN [address |-> <<>>, files |-> files, stale |-> FALSE]
     ELSE IF Alive(table, parseInt(files[file].pid))
     THEN [address |-> << files[file].address >>, files |-> files, stale |-> FALSE]
     ELSE [address |-> <<>>, files |-> Without(files, {file}), stale |-> TRUE]

register(files, name, address, pid) == With(files, PidFile(name), Record(pid, address))
unregister(files, name) == Without(files, {PidFile(name)})

\* An invocation of the command line: kind is "send" (a command) or "list"
\* (session list).
NewClient(kind, name) ==
  [kind |-> kind, session |-> name, pc |-> "idle", resolved |-> <<>>, stale |-> FALSE,
   connects |-> 0,
   spawned |-> 0, served |-> "", names |-> {}, files |-> <<>>,
   table |-> <<>>, left |-> <<>>, code |-> -1]

\* main that calls send again when it threw.
mainCatch_retries(c) == [c EXCEPT !.pc = "resolve"]

\* main: catch (error) { ...; process.exit(1) }
mainCatch(c) == [c EXCEPT !.pc = "exit1", !.code = 1]

\* The machine with one daemon, of session "default", under process id 1.
OneSession ==
  /\ tmp = register(JunkFiles, "default", SocketPath("default"), 1)
  /\ procs = [p \in Pids |-> IF p = 1 THEN Daemon("default", "listening") ELSE Free]
  /\ sockets = [a \in Addresses |-> IF a = SocketPath("default") THEN 1 ELSE 0]
  /\ client = [cl \in Clients |-> NewClient("send", "default")]
  /\ pruned = {}

(***************************************************************************)
(* One message through the protocol.                                       *)
(***************************************************************************)
MessageIdle ==
  /\ pstage = "idle"
  /\ fromClient = FALSE
  /\ argv = ""
  /\ origin = EmptyObject
  /\ wire = Garbage
  /\ parsed = NoResult
  /\ handed = EmptyObject

DaemonFresh ==
  /\ cstate = [c \in Conns |-> "closed"]
  /\ queue = <<>>
  /\ gate = 0
  /\ daemon = "Listening"
  /\ exec = [c \in Conns |-> NotCalled]
  /\ response = [c \in Conns |-> NoResponse]
  /\ oplog = <<>>
  /\ arrivals = <<>>
  /\ starts = <<>>
  /\ browser = NewBrowser
  /\ before = NewBrowser
  /\ last = NoCall

\* The command line has not been run.
NoCli == [pc |-> "none", args |-> <<>>, cmd |-> <<>>, outcome |-> "",
          response |-> NoResponse, code |-> -1]

DaemonStart == DaemonFresh /\ OneSession /\ cli = NoCli

InitMessage ==
  /\ DaemonStart
  /\ parsed = NoResult
  /\ handed = EmptyObject
  /\ \/ /\ pstage = "cli"
        /\ fromClient = TRUE
        /\ argv \in CliUrls
        /\ origin = EmptyObject
        /\ wire = Garbage
     \/ /\ pstage = "client"
        /\ fromClient = TRUE
        /\ argv = ""
        /\ origin \in ClientCommands
        /\ wire = Garbage
     \/ /\ pstage = "wire"
        /\ fromClient = FALSE
        /\ argv = ""
        /\ origin = EmptyObject
        /\ wire \in WireTexts

\* main, called with open, goto or navigate: without a url it exits, otherwise
\* it builds the command it will send.
Main ==
  /\ pstage = "cli"
  /\ IF argv = ""
     THEN /\ pstage' = "exited"
          /\ origin' = origin
     ELSE /\ pstage' = "client"
          /\ \E id \in Ids :
               origin' = [id |-> Str(id), action |-> Str("navigate"),
                          url |-> Str(fullUrl(argv))]
  /\ UNCHANGED << fromClient, argv, wire, parsed, handed, dvars, rvars, cvars >>

\* The client writes the command: JSON.stringify.
Encode ==
  /\ pstage = "client"
  /\ wire' = JSONstringify(origin)
  /\ pstage' = "wire"
  /\ UNCHANGED << fromClient, argv, origin, parsed, handed, dvars, rvars, cvars >>

\* The receiver applies parseCommand to the text.
Parse ==
  /\ pstage = "wire"
  /\ parsed' = parseCommand(wire)
  /\ pstage' = "parsed"
  /\ UNCHANGED << fromClient, argv, origin, wire, handed, dvars, rvars, cvars >>

\* A parsed command goes to the dispatcher: executeCommand is called with it.
Dispatch ==
  /\ pstage = "parsed"
  /\ parsed.success
  /\ handed' = parsed.command
  /\ pstage' = "dispatched"
  /\ exec' = [exec EXCEPT ![1] = executeCommandEnter(parsed.command)]
  /\ before' = browser
  /\ UNCHANGED << fromClient, argv, origin, wire, parsed >>
  /\ UNCHANGED << cstate, queue, gate, daemon, response, oplog, arrivals, starts,
                  browser, last, rvars, cvars >>

\* A failure does not.
Reject ==
  /\ pstage = "parsed"
  /\ ~parsed.success
  /\ pstage' = "rejected"
  /\ UNCHANGED << fromClient, argv, origin, wire, parsed, handed, dvars, rvars, cvars >>

(***************************************************************************)
(* Calls of executeCommand.                                                *)
(***************************************************************************)
\* The awaited operation of the call made for c is invoked on the capability
\* and settles: the manager carries it out and it resolves, or it raises.
Await(c) ==
  /\ exec[c].pc = "running"
  /\ exec[c].todo # <<>>
  /\ LET op == Head(exec[c].todo)
         outcome == Invoke(browser, op)
     IN \E resolves \in (IF outcome.ok THEN BOOLEAN ELSE {FALSE}) :
          /\ exec' = [exec EXCEPT ![c] = executeCommandAwait(exec[c], resolves, outcome.result)]
          /\ browser' = IF resolves THEN outcome.browser ELSE browser
          /\ oplog' = Append(oplog, [conn |-> c, op |-> op.op, arg |-> op.arg,
                                     ok |-> resolves])
  /\ UNCHANGED << cstate, queue, gate, daemon, response, arrivals, starts, before, last,
                  pvars, rvars, cvars >>

\* Nothing is left to await: the handler returns.
Return(c) ==
  /\ exec[c].pc = "running"
  /\ exec[c].todo = <<>>
  /\ exec' = [exec EXCEPT ![c] = executeCommandReturn(exec[c], browser)]
  /\ UNCHANGED << cstate, queue, gate, daemon, response, oplog, arrivals, starts,
                  browser, before, last, pvars, rvars, cvars >>

NextMessage ==
  \/ Main \/ Encode \/ Parse \/ Dispatch \/ Reject
  \/ \E c \in Conns : Await(c) \/ Return(c)

SpecMessage == InitMessage /\ [][NextMessage]_vars

\* The commands executeCommand is called with directly: every command a client
\* may build that is valid, and commands whose action is not a case of the
\* switch.
DirectCommands ==
  {c \in ClientCommands \cup ScrollCommands \cup WaitCommands \cup ScreenshotCommands :
     IsCommand(c) /\ safeParse(JsonObject(c)).success}
    \cup {With(MinimalCommand("click", id), "action", Str("bogus")) : id \in Ids}

\* A caller hands a command to executeCommand (on the first connection's slot).
Call(c) ==
  /\ c = 1
  /\ exec[c].pc = "idle"
  /\ \E command \in DirectCommands :
       exec' = [exec EXCEPT ![c] = executeCommandEnter(command)]
  /\ before' = browser
  /\ UNCHANGED << cstate, queue, gate, daemon, response, oplog, arrivals, starts,
                  browser, last, pvars, rvars, cvars >>

InitDispatch == MessageIdle /\ DaemonStart

NextDispatch == \E c \in Conns : Call(c) \/ Await(c) \/ Return(c)

SpecDispatch == InitDispatch /\ [][NextDispatch]_vars

(***************************************************************************)
(* Calls of executeCommand one after another on one BrowserManager: the    *)
(* tab commands.                                                           *)
(***************************************************************************)
\* Indexes of tabs that exist and of tabs that do not.
TabIndexes == 0..MaxCreated

TabCommands ==
  {MinimalCommand(a, "a") : a \in {"tab_new", "tab_list", "tab_close", "window_new"}}
    \cup {FullCommand("window_new", "a")}
    \cup {With(MinimalCommand(a, "a"), "index", Num(i)) :
            a \in {"tab_switch", "tab_close"}, i \in TabIndexes}

\* The next call: the one before it has settled, and is remembered.  The log
\* starts afresh with each call.
TabCall(c) ==
  /\ c = 1
  /\ exec[c].pc \in {"idle", "done"}
  /\ browser.open
  /\ \E command \in TabCommands :
       exec' = [exec EXCEPT ![c] = executeCommandEnter(command)]
  /\ before' = browser
  /\ last' = IF exec[c].pc = "done"
             THEN [command |-> exec[c].command, response |-> exec[c].response,
                   before |-> before]
             ELSE last
  /\ oplog' = <<>>
  /\ UNCHANGED << cstate, queue, gate, daemon, response, arrivals, starts, browser,
                  pvars, rvars, cvars >>

NextTabs == \E c \in Conns : TabCall(c) \/ Await(c) \/ Return(c)

SpecTabs == InitDispatch /\ [][NextTabs]_vars

(***************************************************************************)
(* The daemon host: connections, the queue and the gate.                   *)
(***************************************************************************)
\* The texts clients write to a daemon: commands of one and of two capability
\* operations, close, a command without a required field, a text that is not
\* JSON.
DaemonTexts ==
  { JSONstringify(With(MinimalCommand("type", "a"), "clear", True)),
    JSONstringify(MinimalCommand("tab_switch", "a")),
    JSONstringify(MinimalCommand("click", "a")),
    JSONstringify(MinimalCommand("close", "a")),
    JSONstringify(Without(MinimalCommand("click", "a"), {"selector"})),
    Garbage }

\* The gate is taken whatever its state.
GateFree_always == TRUE

\* The serialization gate is free.
GateFree == gate = 0

\* Any waiting connection may go next.
NextInLine_any(c) == \E i \in DOMAIN queue : queue[i] = c

\* c is the connection that has waited longest.
NextInLine(c) == queue # <<>> /\ Head(queue) = c

\* The answer to a text that is not a command: an error response under the id
\* parseCommand found, or without an id.
Refusal(result) ==
  IF "id" \in DOMAIN result
  THEN errorResponse(Str(result.id), result.error)
  ELSE [success |-> FALSE, error |-> result.error]

Remove(seq, c) == SelectSeq(seq, LAMBDA x : x # c)

\* The daemon accepts a connection, also while it is busy.
Accept(c) ==
  /\ daemon # "Stopped"
  /\ cstate[c] = "closed"
  /\ cstate' = [cstate EXCEPT ![c] = "accepted"]
  /\ UNCHANGED << queue, gate, daemon, exec, response, oplog, arrivals, starts,
                  browser, before, last, pvars, rvars, cvars >>

\* It reads the one command of the connection: a command queues behind the
\* gate, anything else is answered at once and never reaches the dispatcher.
Read(c) ==
  /\ daemon # "Stopped"
  /\ cstate[c] = "accepted"
  /\ \E text \in DaemonTexts :
       LET result == parseCommand(text)
       IN IF result.success
          THEN /\ cstate' = [cstate EXCEPT ![c] = "queued"]
               /\ queue' = Append(queue, c)
               /\ arrivals' = Append(arrivals, c)
               /\ exec' = [exec EXCEPT ![c].command = result.command]
               /\ UNCHANGED response
          ELSE /\ cstate' = [cstate EXCEPT ![c] = "refused"]
               /\ response' = [response EXCEPT ![c] = Refusal(result)]
               /\ UNCHANGED << queue, arrivals, exec >>
  /\ UNCHANGED << gate, daemon, oplog, starts, browser, before, last, pvars, rvars, cvars >>

\* The next command in line takes the gate and the dispatcher is run on it.
Begin(c) ==
  /\ daemon # "Stopped"
  /\ cstate[c] = "queued"
  /\ GateFree
  /\ NextInLine(c)
  /\ gate' = c
  /\ daemon' = "Busy"
  /\ queue' = Remove(queue, c)
  /\ starts' = Append(starts, c)
  /\ cstate' = [cstate EXCEPT ![c] = "executing"]
  /\ exec' = [exec EXCEPT ![c] = executeCommandEnter(exec[c].command)]
  /\ before' = browser
  /\ UNCHANGED << response, oplog, arrivals, browser, last, pvars, rvars, cvars >>

\* Write that shuts the daemon down after a command that raised, too.
Write_stopsOnFault(c) ==
  /\ cstate[c] = "executing"
  /\ exec[c].pc = "done"
  /\ exec[c].settled = "returned"
  /\ response' = [response EXCEPT ![c] = exec[c].response]
  /\ gate' = 0
  /\ IF exec[c].command["action"].s = "close" \/ exec[c].raised
     THEN /\ daemon' = "Stopped"
          /\ queue' = <<>>
          /\ cstate' = [d \in Conns |->
                          IF d = c THEN "answered"
                          ELSE IF cstate[d] \in {"accepted", "queued"} THEN "dropped"
                          ELSE cstate[d]]
          /\ tmp' = unregister(tmp, "default")
          /\ sockets' = [a \in DOMAIN sockets |-> IF sockets[a] = 1 THEN 0 ELSE sockets[a]]
          /\ procs' = [procs EXCEPT ![1] = Free]
     ELSE /\ daemon' = "Listening"
          /\ queue' = queue
          /\ cstate' = [cstate EXCEPT ![c] = "answered"]
          /\ UNCHANGED << tmp, sockets, procs >>
  /\ UNCHANGED << exec, oplog, arrivals, starts, browser, before, last, pvars,
                  client, pruned, cvars >>

\* The dispatcher has returned: its response is written and the gate released.
\* After a close the daemon shuts down: it unregisters its session, unbinds its
\* endpoint and its process ends; the connections it has not served see it go.
Write(c) ==
  /\ cstate[c] = "executing"
  /\ exec[c].pc = "done"
  /\ exec[c].settled = "returned"
  /\ response' = [response EXCEPT ![c] = exec[c].response]
  /\ gate' = 0
  /\ IF exec[c].command["action"].s = "close"
     THEN /\ daemon' = "Stopped"
          /\ queue' = <<>>
          /\ cstate' = [d \in Conns |->
                          IF d = c THEN "answered"
                          ELSE IF cstate[d] \in {"accepted", "queued"} THEN "dropped"
                          ELSE cstate[d]]
          /\ tmp' = unregister(tmp, "default")
          /\ sockets' = [a \in DOMAIN sockets |-> IF sockets[a] = 1 THEN 0 ELSE sockets[a]]
          /\ procs' = [procs EXCEPT ![1] = Free]
     ELSE /\ daemon' = "Listening"
          /\ queue' = queue
          /\ cstate' = [cstate EXCEPT ![c] = "answered"]
          /\ UNCHANGED << tmp, sockets, procs >>
  /\ UNCHANGED << exec, oplog, arrivals, starts, browser, before, last, pvars,
                  client, pruned, cvars >>

Init == MessageIdle /\ DaemonStart

Next ==
  \E c \in Conns :
    Accept(c) \/ Read(c) \/ Begin(c) \/ Await(c) \/ Return(c) \/ Write(c)

Spec == Init /\ [][Next]_vars

(***************************************************************************)
(* Sessions on one machine: processes come and go, daemons start, stop and *)
(* crash, and invocations of the command line send a command under a       *)
(* session name or list the sessions.                                      *)
(***************************************************************************)
\* At the start a session has no daemon and no record ("none"), the record of
\* a daemon that ran under process id 1 and died ("stale"), or a daemon that
\* listens ("live"), that of "default" under process id 1 and that of "agent1"
\* under process id 2.
SessionPid(name) == IF name = "default" THEN 1 ELSE 2

RecordsAtStart(status) ==
  [f \in {PidFile(n) : n \in {m \in Sessions : status[m] # "none"}} |->
     LET name == CHOOSE n \in Sessions : PidFile(n) = f
     IN Record(IF status[name] = "live" THEN SessionPid(name) ELSE 1, SocketPath(name))]

InitSessions ==
  /\ MessageIdle
  /\ DaemonFresh
  /\ \E status \in [Sessions -> {"none", "stale", "live"}] :
       LET live == {n \in Sessions : status[n] = "live"}
       IN /\ tmp = JunkFiles @@ RecordsAtStart(status)
          /\ procs = [p \in Pids |->
                        IF \E n \in live : SessionPid(n) = p
                        THEN Daemon(CHOOSE n \in live : SessionPid(n) = p, "listening")
                        ELSE Free]
          /\ sockets = [a \in Addresses |->
                          IF \E n \in live : SocketPath(n) = a
                          THEN SessionPid(CHOOSE n \in live : SocketPath(n) = a)
                          ELSE 0]
  /\ client \in [Clients -> {NewClient(kind, name) : kind \in {"send", "list"},
                                                    name \in Sessions}]
  /\ client[1] = NewClient("send", "default")
  /\ cli = NoCli
  /\ pruned = {}

\* A process that is no daemon starts under a free process id that a record
\* names, as this user or as another.  (Processes under other ids are seen by
\* nobody.)
Fork(p) ==
  /\ procs[p] = Free
  /\ \E f \in DOMAIN tmp : parseInt(tmp[f].pid) = Num(p)
  /\ \E process \in {Other, Foreign} : procs' = [procs EXCEPT ![p] = process]
  /\ UNCHANGED << tmp, sockets, client, pruned, pvars, dvars, cvars >>

\* It ends, and its process id is free again.
Exit(p) ==
  /\ procs[p].kind \in {"other", "foreign"}
  /\ procs' = [procs EXCEPT ![p] = Free]
  /\ UNCHANGED << tmp, sockets, client, pruned, pvars, dvars, cvars >>

\* A daemon dies: its endpoint is gone, its record stays behind.
Crash(p) ==
  /\ procs[p].kind = "daemon"
  /\ procs' = [procs EXCEPT ![p] = Free]
  /\ sockets' = [a \in DOMAIN sockets |-> IF sockets[a] = p THEN 0 ELSE sockets[a]]
  /\ UNCHANGED << tmp, client, pruned, pvars, dvars, cvars >>

\* A spawned daemon binds the address of its session, registers the session
\* and listens.
Startup(p) ==
  /\ procs[p].kind = "daemon" /\ procs[p].phase = "starting"
  /\ sockets[SocketPath(procs[p].session)] = 0
  /\ sockets' = [sockets EXCEPT ![SocketPath(procs[p].session)] = p]
  /\ tmp' = register(tmp, procs[p].session, SocketPath(procs[p].session), p)
  /\ procs' = [procs EXCEPT ![p].phase = "listening"]
  /\ pruned' = pruned \ {procs[p].session}
  /\ UNCHANGED << client, pvars, dvars, cvars >>

\* The address is bound by another daemon: the spawned daemon ends.
StartupFails(p) ==
  /\ procs[p].kind = "daemon" /\ procs[p].phase = "starting"
  /\ sockets[SocketPath(procs[p].session)] # 0
  /\ procs' = [procs EXCEPT ![p] = Free]
  /\ UNCHANGED << tmp, sockets, client, pruned, pvars, dvars, cvars >>

\* A listening daemon has answered a close: it unregisters, unbinds and ends.
Stop(p) ==
  /\ procs[p].kind = "daemon" /\ procs[p].phase = "listening"
  /\ tmp' = unregister(tmp, procs[p].session)
  /\ sockets' = [a \in DOMAIN sockets |-> IF sockets[a] = p THEN 0 ELSE sockets[a]]
  /\ procs' = [procs EXCEPT ![p] = Free]
  /\ UNCHANGED << client, pruned, pvars, dvars, cvars >>

\* main calls send(cmd).
Send(cl) ==
  /\ client[cl].kind = "send" /\ client[cl].pc = "idle"
  /\ client' = [client EXCEPT ![cl].pc = "resolve"]
  /\ UNCHANGED << tmp, procs, sockets, pruned, pvars, dvars, cvars >>

\* send resolves the session name in the registry.
Resolve(cl) ==
  /\ client[cl].pc = "resolve"
  /\ LET r == resolve(tmp, procs, client[cl].session)
     IN /\ tmp' = r.files
        /\ pruned' = IF r.stale THEN pruned \cup {client[cl].session} ELSE pruned
        /\ client' = [client EXCEPT ![cl].resolved = r.address,
                                    ![cl].stale = r.stale,
                                    ![cl].pc = IF r.address # <<>> THEN "connect"
                                               ELSE "spawn"]
  /\ UNCHANGED << procs, sockets, pvars, dvars, cvars >>

\* The daemon listening on an address, as the set of its session name.
ListeningOn(address) ==
  IF address \in DOMAIN sockets /\ sockets[address] # 0
  THEN {procs[sockets[address]].session}
  ELSE {}

\* It connects to the resolved address: the daemon there answers the command,
\* or nothing listens there and a daemon has to be spawned.
Connect(cl) ==
  /\ client[cl].pc = "connect"
  /\ LET at == ListeningOn(client[cl].resolved[1])
     IN client' = [client EXCEPT
                     ![cl].connects = @ + 1,
                     ![cl].served = IF at # {} THEN CHOOSE n \in at : TRUE ELSE @,
                     ![cl].pc = IF at # {} THEN "answered" ELSE "spawn"]
  /\ UNCHANGED << tmp, procs, sockets, pruned, pvars, dvars, cvars >>

\* It spawns a daemon for the session.
Spawn(cl) ==
  /\ client[cl].pc = "spawn"
  /\ \E p \in Pids :
       /\ procs[p] = Free
       /\ procs' = [procs EXCEPT ![p] = Daemon(client[cl].session, "starting")]
       /\ client' = [client EXCEPT ![cl].spawned = @ + 1, ![cl].pc = "waiting"]
  /\ UNCHANGED << tmp, sockets, pruned, pvars, dvars, cvars >>

\* The daemon of the session listens within the startup timeout.
WaitReady(cl) ==
  /\ client[cl].pc = "waiting"
  /\ ListeningOn(SocketPath(client[cl].session)) # {}
  /\ client' = [client EXCEPT ![cl].pc = "connect2"]
  /\ UNCHANGED << tmp, procs, sockets, pruned, pvars, dvars, cvars >>

\* The startup timeout passes first: send throws.
WaitTimeout(cl) ==
  /\ client[cl].pc = "waiting"
  /\ client' = [client EXCEPT ![cl].pc = "thrown"]
  /\ UNCHANGED << tmp, procs, sockets, pruned, pvars, dvars, cvars >>

\* It connects after the spawn: the daemon answers, or send throws.
Connect2(cl) ==
  /\ client[cl].pc = "connect2"
  /\ LET at == ListeningOn(SocketPath(client[cl].session))
     IN client' = [client EXCEPT
                     ![cl].connects = @ + 1,
                     ![cl].served = IF at # {} THEN CHOOSE n \in at : TRUE ELSE @,
                     ![cl].pc = IF at # {} THEN "answered" ELSE "thrown"]
  /\ UNCHANGED << tmp, procs, sockets, pruned, pvars, dvars, cvars >>

\* main prints the response and exits with 0.
Receive(cl) ==
  /\ client[cl].pc = "answered"
  /\ client' = [client EXCEPT ![cl].pc = "exit0", ![cl].code = 0]
  /\ UNCHANGED << tmp, procs, sockets, pruned, pvars, dvars, cvars >>

\* send threw: main's catch.
Catch(cl) ==
  /\ client[cl].pc = "thrown"
  /\ client' = [client EXCEPT ![cl] = mainCatch(client[cl])]
  /\ UNCHANGED << tmp, procs, sockets, pruned, pvars, dvars, cvars >>

\* session list: main prints listSessions() and exits with 0.  What the
\* directory held before and after is remembered.
List(cl) ==
  /\ client[cl].kind = "list" /\ client[cl].pc = "idle"
  /\ \E readable \in BOOLEAN :
       client' = [client EXCEPT ![cl].names = listSessions(tmp, procs, readable),
                                ![cl].files = IF readable THEN tmp ELSE <<>>,
                                ![cl].table = procs,
                                ![cl].left = tmp,
                                ![cl].pc = "exit0", ![cl].code = 0]
  /\ UNCHANGED << tmp, procs, sockets, pruned, pvars, dvars, cvars >>

NextSessions ==
  \/ \E p \in Pids :
       Fork(p) \/ Exit(p) \/ Crash(p) \/ Startup(p) \/ StartupFails(p) \/ Stop(p)
  \/ \E cl \in Clients :
       \/ Send(cl) \/ Resolve(cl) \/ Connect(cl) \/ Spawn(cl) \/ WaitReady(cl)
       \/ WaitTimeout(cl) \/ Connect2(cl) \/ Receive(cl) \/ Catch(cl) \/ List(cl)

SpecSessions == InitSessions /\ [][NextSessions]_vars

(***************************************************************************)
(* The command line, from its arguments to its exit code: main builds the  *)
(* command of wait or of scroll, sends it, prints what came back and       *)
(* exits.                                                                  *)
(***************************************************************************)
\* args.includes(a)
includes(args, a) == \E i \in DOMAIN args : args[i] = a

\* seq[i], "" standing for undefined.
At(seq, i) == IF i \in DOMAIN seq THEN seq[i] ELSE ""

\* args.filter(...): the arguments that are no flags and no values of
\* --selector, -s or --session.
RECURSIVE cleanFrom(_, _)
cleanFrom(args, i) ==
  IF i > Len(args) THEN <<>>
  ELSE (IF \/ startsWith(args[i], "-")
           \/ At(args, i - 1) \in {"--selector", "-s", "--session"}
        THEN <<>> ELSE << args[i] >>)
       \o cleanFrom(args, i + 1)

cleanArgs(args) == cleanFrom(args, 1)

\* The value of --selector or -s, "" when there is none.
selectorOverride(args) ==
  IF \E i \in DOMAIN args : args[i] \in {"--selector", "-s"}
  THEN At(args, 1 + CHOOSE i \in DOMAIN args :
                       /\ args[i] \in {"--selector", "-s"}
                       /\ \A j \in 1..(i - 1) : args[j] \notin {"--selector", "-s"})
  ELSE ""

jsonMode(args) == includes(args, "--json")
textMode(args) == includes(args, "--text") \/ includes(args, "-t")

\* A member whose value is undefined is not written by JSON.stringify.
WithSelector(cmd, selector) ==
  IF selector = "" THEN cmd ELSE With(cmd, "selector", Str(selector))

\* a || 300
Or300(v) == IF v.s = "NaN" \/ (v.s = "" /\ v.n = 0) THEN Num(300) ELSE v

\* case 'wait': the command built, as a sequence of at most one; none when
\* main exits with 1 for want of a target.
mainWait(args, id) ==
  LET target == At(cleanArgs(args), 2)
      ms == parseInt(target)
      base == [id |-> Str(id), action |-> Str("wait")]
  IN IF target = "" THEN <<>>
     ELSE IF ms.s # "NaN" THEN << With(base, "timeout", ms) >>
     ELSE IF textMode(args) THEN << With(base, "selector", Str("text=" \o target)) >>
     ELSE << With(base, "selector", Str(target)) >>

\* case 'scroll'
mainScroll(args, id) ==
  LET dirOrAmount == At(cleanArgs(args), 2)
      amount == Or300(parseInt(At(cleanArgs(args), 3)))
      base == [id |-> Str(id), action |-> Str("scroll")]
  IN IF dirOrAmount \in {"up", "down", "left", "right"}
     THEN << WithSelector(With(With(base, "direction", Str(dirOrAmount)),
                               "amount", amount),
                          selectorOverride(args)) >>
     ELSE << WithSelector(With(base, "y", Or300(parseInt(dirOrAmount))),
                          selectorOverride(args)) >>

\* printResponse: whether it returns ("returned") or ends the process with
\* code 1 ("exit1").
printResponse(received, json) ==
  IF json THEN "returned"
  ELSE IF ~received.success THEN "exit1"
  ELSE "returned"

\* The try and the catch around send: the code main exits with.
mainExit(outcome, received, json) ==
  IF outcome = "thrown" THEN 1
  ELSE IF printResponse(received, json) = "exit1" THEN 1
  ELSE 0

\* The arguments the command line is run with.
WaitTargets == {"#loading", "Welcome", "2000", "404 Not Found", "0"}

CliArgs ==
  {<< "wait" >> \o f \o t \o j :
     f \in {<<>>, << "--text" >>, << "-t" >>},
     t \in {<<>>} \cup {<< x >> : x \in WaitTargets},
     j \in {<<>>, << "--json" >>}}
  \cup
  {<< "scroll" >> \o sel \o d \o a \o j :
     sel \in {<<>>, << "-s", "#container" >>},
     d \in {<<>>, << "down" >>, << "left" >>, << "250" >>},
     a \in {<<>>, << "50" >>},
     j \in {<<>>, << "--json" >>}}

InitCli ==
  /\ MessageIdle
  /\ DaemonFresh
  /\ OneSession
  /\ \E args \in CliArgs : cli = [NoCli EXCEPT !.pc = "start", !.args = args]

\* main up to the end of its switch: the command is built, or main exits
\* with 1.
CliBuild ==
  /\ cli.pc = "start"
  /\ LET built == IF At(cleanArgs(cli.args), 1) = "wait"
                  THEN mainWait(cli.args, "a")
                  ELSE mainScroll(cli.args, "a")
     IN cli' = IF built = <<>>
               THEN [cli EXCEPT !.pc = "exited", !.code = 1]
               ELSE [cli EXCEPT !.pc = "built", !.cmd = built[1]]
  /\ UNCHANGED << pvars, dvars, rvars >>

\* await send(cmd): a success response, an error response, or send throws.
CliSend ==
  /\ cli.pc = "built"
  /\ \/ \E received \in {successResponse(cli.cmd["id"], [done |-> True]),
                          errorResponse(cli.cmd["id"], "fault")} :
          cli' = [cli EXCEPT !.pc = "sent", !.outcome = "response",
                             !.response = received]
     \/ cli' = [cli EXCEPT !.pc = "sent", !.outcome = "thrown"]
  /\ UNCHANGED << pvars, dvars, rvars >>

\* The response is printed, or the error is, and the process exits.
CliExit ==
  /\ cli.pc = "sent"
  /\ cli' = [cli EXCEPT !.pc = "exited",
                        !.code = mainExit(cli.outcome, cli.response, jsonMode(cli.args))]
  /\ UNCHANGED << pvars, dvars, rvars >>

NextCli == CliBuild \/ CliSend \/ CliExit

SpecCli == InitCli /\ [][NextCli]_vars

(***************************************************************************)
(* Properties of the dispatcher.                                           *)
(***************************************************************************)
Settled(c) == exec[c].pc = "done"

\* C1: the response executeCommand returns for a command, whatever its action
\* and whether its handler succeeded or raised, carries the command's id.
C1_ResponseIdIsCommandId ==
  \A c \in Conns :
    (Settled(c) /\ exec[c].settled = "returned") =>
      /\ "id" \in DOMAIN exec[c].response
      /\ exec[c].response.id = exec[c].command["id"]

C1_Witness ==
  /\ Settled(1)
  /\ exec[1].raised
  /\ exec[1].command["action"].s = "navigate"
  /\ exec[1].command["id"] = Str("a")
  /\ exec[1].response.id = Str("a")

\* C2: no fault escapes executeCommand.  Every call returns, and a call one of
\* whose operations raised returns a response with success = false, an error
\* string and the command's id.
C2_FaultsBecomeErrorResponses ==
  \A c \in Conns :
    Settled(c) =>
      /\ exec[c].settled = "returned"
      /\ exec[c].raised =>
           /\ exec[c].response.success = FALSE
           /\ "error" \in DOMAIN exec[c].response
           /\ exec[c].response.error \in STRING
           /\ exec[c].response.id = exec[c].command["id"]

C2_Witness ==
  /\ Settled(1)
  /\ exec[1].raised
  /\ exec[1].settled = "returned"
  /\ exec[1].command["action"].s = "type"
  /\ exec[1].response.error = "fault in fill"

\* C8: every response of the dispatcher has exactly one of data and error:
\* data and no error when success is true, error and no data when it is false.
ExactlyOneOfDataAndError(r) ==
  /\ ("data" \in DOMAIN r) # ("error" \in DOMAIN r)
  /\ r.success = ("data" \in DOMAIN r)

C8_DataXorError ==
  \A c \in Conns :
    (Settled(c) /\ exec[c].settled = "returned") =>
      ExactlyOneOfDataAndError(exec[c].response)

C8_Witness ==
  /\ Settled(1)
  /\ exec[1].command["action"].s = "bogus"
  /\ exec[1].response.success = FALSE
  /\ "data" \notin DOMAIN exec[1].response
  /\ exec[1].response.error = "Unknown action: bogus"

(***************************************************************************)
(* Properties of the daemon host.                                          *)
(***************************************************************************)
Executing == {c \in Conns : cstate[c] = "executing"}

\* The operations of one command are not interleaved with another's.
Serial(log) ==
  \A i, j, k \in DOMAIN log :
    (i < j /\ j < k /\ log[i].conn = log[k].conn) => log[j].conn = log[i].conn

\* C3: at most one command executes against the capability at a time, also
\* when several connections were accepted and their commands read, and the
\* capability sees the operations of the commands one command after another.
C3_OneCommandAtATime ==
  /\ Cardinality(Executing) <= 1
  /\ Serial(oplog)

C3_Witness ==
  \E c, d \in Conns :
    /\ c # d
    /\ cstate[c] = "executing"
    /\ exec[c].pc = "running"
    /\ cstate[d] = "queued"
    /\ \E i \in DOMAIN oplog : oplog[i].conn = c

\* C4: commands are executed in the order they arrived: when a command has
\* started, every command that arrived before it has completed.
C4_ArrivalOrder ==
  /\ \A i \in DOMAIN starts : starts[i] = arrivals[i]
  /\ \A i, j \in DOMAIN arrivals :
       (i < j /\ (\E k \in DOMAIN starts : starts[k] = arrivals[j])) =>
         /\ Settled(arrivals[i])
         /\ cstate[arrivals[i]] = "answered"

C4_Witness ==
  /\ arrivals = << 2, 1 >>
  /\ starts = << 2, 1 >>
  /\ cstate[2] = "answered"
  /\ cstate[1] = "executing"

(***************************************************************************)
(* Properties of the wire protocol.                                        *)
(***************************************************************************)
Parsed == pstage \in {"parsed", "dispatched", "rejected"}
IsObjectText(text) == text.syntax = "ok" /\ text.json.top = "object"
WireObject == wire.json.obj
Names(result, key) == \E i \in DOMAIN result.errors : result.errors[i].path = key

\* The required fields an object lacks: those of its tag (id and action
\* included) when it has one, the tag itself when it has no action at all.
Lacking(obj) ==
  IF HasTag(obj) THEN RequiredMembers(obj["action"].s) \ DOMAIN obj
  ELSE IF "action" \notin DOMAIN obj THEN {"action"} ELSE {}

\* C5: a command that lacks a field required for its action tag (id and action
\* included) is refused by parseCommand with an error that names every such
\* field, and is never handed to the dispatcher.
C5_MissingRequiredFieldIsNamed ==
  (Parsed /\ IsObjectText(wire) /\ Lacking(WireObject) # {}) =>
    /\ ~parsed.success
    /\ \A key \in Lacking(WireObject) : Names(parsed, key)
    /\ pstage # "dispatched"

C5_Witness ==
  /\ pstage = "rejected"
  /\ IsObjectText(wire)
  /\ HasTag(WireObject)
  /\ WireObject["action"].s = "click"
  /\ Lacking(WireObject) = {"selector"}
  /\ parsed.error = "Validation error: selector: Required"

\* C6 as stated: when parseCommand refuses a JSON object that has an id, the
\* failure carries that id unchanged.
C6_IdUnchanged ==
  (Parsed /\ IsObjectText(wire) /\ "id" \in DOMAIN WireObject /\ ~parsed.success) =>
    /\ "id" \in DOMAIN parsed
    /\ Str(parsed.id) = WireObject["id"]

\* C6 as amended: the failure carries the id unchanged when the id is a string,
\* and otherwise the text String() makes of it: the digits of a number, "null",
\* "true" or "false", "[object Object]".
C6_IdKeptAsString ==
  (Parsed /\ IsObjectText(wire) /\ "id" \in DOMAIN WireObject /\ ~parsed.success) =>
    /\ "id" \in DOMAIN parsed
    /\ LET id == WireObject["id"]
       IN /\ IsString(id) => Str(parsed.id) = id
          /\ id = Num(7) => parsed.id = "7"
          /\ id = Null => parsed.id = "null"
          /\ id = Bool(FALSE) => parsed.id = "false"
          /\ id.t = "object" => parsed.id = "[object Object]"

C6_Witness ==
  /\ pstage = "rejected"
  /\ IsObjectText(wire)
  /\ "id" \in DOMAIN WireObject
  /\ WireObject["id"] = Str("a")
  /\ "id" \in DOMAIN parsed
  /\ parsed.id = "a"

\* C7: a text from which no envelope can be read (it is not JSON, or the JSON
\* value is not an object, or the object has no id) makes parseCommand return
\* a failure without an id, and never a command.
C7_UnparseableHasNoId ==
  (Parsed /\ (~IsObjectText(wire) \/ "id" \notin DOMAIN WireObject)) =>
    /\ ~parsed.success
    /\ "id" \notin DOMAIN parsed
    /\ pstage # "dispatched"

C7_Witness ==
  /\ pstage = "rejected"
  /\ wire.syntax = "bad"
  /\ parsed.error = "Invalid JSON"
  /\ "id" \notin DOMAIN parsed

\* A valid command: a value of the Command type that the schema accepts.
ValidCommand(obj) == IsCommand(obj) /\ safeParse(JsonObject(obj)).success
\* Every value of the object is one JSON can write: no number that is not
\* finite, no undefined in an array.
JsonValues(obj) == \A k \in DOMAIN obj : JSONvalue(obj[k]) = obj[k]

\* C9 as stated: the text of every valid command parses to a command equal to it.
C9_RoundTrip ==
  (Parsed /\ fromClient /\ ValidCommand(origin)) =>
    /\ parsed.success
    /\ parsed.command = origin

\* C9 as amended: the text of every valid command whose values JSON can write
\* (its numbers are finite, its args hold no undefined and no number that is
\* not finite) parses to a command equal to it.
C9_RoundTripOfJsonCommands ==
  (Parsed /\ fromClient /\ ValidCommand(origin) /\ JsonValues(origin)) =>
    /\ parsed.success
    /\ parsed.command = origin

C9_Witness ==
  /\ pstage = "dispatched"
  /\ fromClient
  /\ ValidCommand(origin)
  /\ origin["action"].s = "scroll"
  /\ {"x", "y", "amount", "direction", "selector"} \subseteq DOMAIN origin
  /\ handed = origin

\* The keys of an object that the type of its tag does not define.
Undefined(obj) == DOMAIN obj \ MemberKeys(obj["action"].s)

\* C10 as stated: a command with a field not defined for its tag is refused.
C10_UnknownFieldRefused ==
  (Parsed /\ IsObjectText(wire) /\ HasTag(WireObject) /\ Undefined(WireObject) # {}) =>
    ~parsed.success

\* C10 as amended: a field not defined for the tag does not make a command
\* invalid.  parseCommand removes it: a command that is valid without the field
\* is accepted as the command without it, and every command handed to the
\* dispatcher has only the fields defined for its tag.
C10_UnknownFieldRemoved ==
  /\ (Parsed /\ IsObjectText(wire) /\ HasTag(WireObject) /\ Undefined(WireObject) # {}
        /\ ValidCommand(Without(WireObject, Undefined(WireObject)))) =>
       /\ parsed.success
       /\ parsed.command = Without(WireObject, Undefined(WireObject))
  /\ pstage = "dispatched" => (HasTag(handed) /\ Undefined(handed) = {})

C10_Witness ==
  /\ pstage = "dispatched"
  /\ "extra" \in DOMAIN WireObject
  /\ "extra" \notin DOMAIN handed

(***************************************************************************)
(* Validation and the capability.                                          *)
(***************************************************************************)
\* The required selector, url, key or script of an object that is the empty
\* string.
EmptyRequired(obj) ==
  {k \in (RequiredMembers(obj["action"].s) \cap DOMAIN obj)
          \cap {"selector", "url", "key", "script"} : obj[k] = Str("")}

\* C11: a command that parseCommand refuses causes no capability operation
\* and no handler is run for it; a command whose required selector, url, key
\* or script is the empty string is refused with a validation error that names
\* the field and carries the command's id.
C11_InvalidCommandsNeverRun ==
  /\ (Parsed /\ ~parsed.success) =>
       /\ pstage # "dispatched"
       /\ handed = EmptyObject
       /\ exec[1] = NotCalled
       /\ oplog = <<>>
       /\ browser = NewBrowser
  /\ (Parsed /\ IsObjectText(wire) /\ HasTag(WireObject)
        /\ "id" \in DOMAIN WireObject /\ IsString(WireObject["id"])
        /\ EmptyRequired(WireObject) # {}) =>
       /\ ~parsed.success
       /\ "id" \in DOMAIN parsed
       /\ Str(parsed.id) = WireObject["id"]
       /\ \A k \in EmptyRequired(WireObject) :
            \E i \in DOMAIN parsed.errors :
              /\ parsed.errors[i].path = k
              /\ parsed.errors[i].message = "String must contain at least 1 character(s)"

C11_Witness ==
  /\ pstage = "rejected"
  /\ IsObjectText(wire)
  /\ HasTag(WireObject)
  /\ WireObject["action"].s = "click"
  /\ EmptyRequired(WireObject) = {"selector"}
  /\ parsed.id = "a"
  /\ parsed.error = "Validation error: selector: String must contain at least 1 character(s)"
  /\ exec[1] = NotCalled
  /\ oplog = <<>>

\* A url has a scheme when it holds "://".
HasScheme(url) == \E i \in 1..Len(url) : i + 2 <= Len(url) /\ SubSeq(url, i, i + 2) = "://"

IsNavigate(obj) == HasTag(obj) /\ obj["action"].s = "navigate"

\* The url the sender gave: to the command line, or in the command it wrote.
GivenUrl == IF argv # "" THEN argv ELSE handed["url"].s

\* C12: when the url given for a navigate command has no scheme, the url the
\* engine is asked to load is that url with https:// before it, and the url of
\* the response data starts with https://.
C12_SchemelessUrlGetsHttps ==
  (IsNavigate(handed) /\ ~HasScheme(GivenUrl)) =>
    /\ \A i \in DOMAIN oplog :
         oplog[i].op = "goto" => oplog[i].arg = Str("https://" \o GivenUrl)
    /\ (Settled(1) /\ exec[1].response.success) =>
         startsWith(exec[1].response.data.url.s, "https://")

(***************************************************************************)
(* Properties of the tab commands.                                         *)
(***************************************************************************)
IsAction(obj, action) == HasTag(obj) /\ obj["action"].s = action
Succeeded(c) == Settled(c) /\ exec[c].settled = "returned" /\ exec[c].response.success

\* C13: a tab_close command with no index that is carried out, in a manager
\* with previousCount pages, closes the page that was active and no other,
\* reports the index it closed and remaining = previousCount - 1, and leaves
\* the active index at the lowest remaining index, 0.  One that is not carried
\* out (the last page, an engine fault) closes nothing.
C13_TabCloseTargetsActive ==
  \A c \in Conns :
    (Settled(c) /\ IsAction(exec[c].command, "tab_close")
       /\ "index" \notin DOMAIN exec[c].command) =>
      IF exec[c].response.success
      THEN /\ Len(before.pages) > 1
           /\ browser.pages = RemoveAt(before.pages, before.active + 1)
           /\ exec[c].response.data.closed = Num(before.active)
           /\ exec[c].response.data.remaining = Num(Len(before.pages) - 1)
           /\ Len(browser.pages) = Len(before.pages) - 1
           /\ browser.active = 0
      ELSE browser = before

C13_Witness ==
  /\ Succeeded(1)
  /\ IsAction(exec[1].command, "tab_close")
  /\ "index" \notin DOMAIN exec[1].command
  /\ Len(before.pages) = 3
  /\ before.active = 1
  /\ exec[1].response.data = [closed |-> Num(1), remaining |-> Num(2)]
  /\ browser.pages = << before.pages[1], before.pages[3] >>

\* The entries of a tabs list that are marked active.
ActiveEntries(tabs) == {i \in DOMAIN tabs : tabs[i].active = Bool(TRUE)}

\* C14: whatever tab commands came before, when a tab_new that succeeded is
\* followed by a tab_list, the tabs list is one longer than the number of
\* pages open before the tab_new, its entries are numbered from 0 in order,
\* exactly one entry is marked active, and the index of that entry is the
\* active field of the response.
C14_TabNewThenTabList ==
  (Succeeded(1) /\ IsAction(exec[1].command, "tab_list")
     /\ IsAction(last.command, "tab_new") /\ last.response.success) =>
    LET tabs == exec[1].response.data.tabs
        active == exec[1].response.data.active
    IN /\ Len(tabs) = Len(last.before.pages) + 1
       /\ \A i \in DOMAIN tabs : tabs[i].index = Num(i - 1)
       /\ Cardinality(ActiveEntries(tabs)) = 1
       /\ \A i \in ActiveEntries(tabs) : tabs[i].index = active

C14_Witness ==
  /\ Succeeded(1)
  /\ IsAction(exec[1].command, "tab_list")
  /\ IsAction(last.command, "tab_new")
  /\ last.response.success
  /\ Len(last.before.pages) = 2
  /\ last.before.active = 0
  /\ Len(exec[1].response.data.tabs) = 3
  /\ exec[1].response.data.active = Num(2)
  /\ ActiveEntries(exec[1].response.data.tabs) = {3}

\* C15: while the capability is held, whatever tab_new, window_new, tab_switch
\* and tab_close commands were executed, and whether they succeeded or failed,
\* the page collection is not empty and the active index is an index into it.
C15_ActiveIndexIsValid ==
  browser.open =>
    /\ Len(browser.pages) >= 1
    /\ browser.active \in 0..(Len(browser.pages) - 1)

C15_Witness ==
  /\ Settled(1)
  /\ IsAction(exec[1].command, "tab_switch")
  /\ ~exec[1].response.success
  /\ IsAction(last.command, "tab_close")
  /\ last.response.success
  /\ last.before.active = 2
  /\ Len(browser.pages) = 2
  /\ browser.active = 0


(***************************************************************************)
(* Shutdown.                                                               *)
(***************************************************************************)
Last(seq) == seq[Len(seq)]

\* The capability has been released for the close command of connection c.
Released(c) ==
  /\ ~browser.open
  /\ \E i \in DOMAIN oplog :
       oplog[i].conn = c /\ oplog[i].op = "close" /\ oplog[i].ok

\* C20: a close command is answered with success and data {closed: true} only
\* when the release of the capability has completed before.  Once the daemon
\* has answered a close it is Stopped: the record of its session is gone from
\* the registry, its endpoint is unbound, no command holds the gate, the close
\* was the last command it started and no capability operation follows the
\* operations of the close.
C20_CloseReleasesThenStops ==
  /\ \A c \in Conns :
       /\ exec[c].pc = "done"
       /\ IsAction(exec[c].command, "close")
       /\ exec[c].response.success
       => /\ exec[c].response.data = [closed |-> True]
          /\ Released(c)
  /\ daemon = "Stopped"
       => /\ PidFile("default") \notin DOMAIN tmp
          /\ sockets[SocketPath("default")] = 0
          /\ gate = 0
          /\ \A c \in Conns : cstate[c] # "executing"
          /\ starts # <<>>
          /\ IsAction(exec[Last(starts)].command, "close")
          /\ oplog # <<>> /\ Last(oplog).conn = Last(starts) /\ Last(oplog).op = "close"

\* The daemon has answered a close with success while another command waited
\* in the queue, and has stopped.
C20_Witness ==
  /\ daemon = "Stopped"
  /\ \E c, d \in Conns :
       /\ cstate[c] = "answered"
       /\ IsAction(exec[c].command, "close")
       /\ response[c].success
       /\ response[c].data = [closed |-> True]
       /\ cstate[d] = "dropped"


(***************************************************************************)
(* Properties of the sessions.                                             *)
(***************************************************************************)
\* C16: a resolve that finds the record of a session with a process id that is
\* not alive returns NotFound, and the record is deleted: from then on, until a
\* daemon registers the session again, the session has no record and a resolve
\* of its name returns NotFound and finds nothing stale.
C16_StaleEntryPruned ==
  /\ \A cl \in Clients : client[cl].stale => client[cl].resolved = <<>>
  /\ \A name \in pruned :
       /\ PidFile(name) \notin DOMAIN tmp
       /\ resolve(tmp, procs, name).address = <<>>
       /\ ~resolve(tmp, procs, name).stale

\* A resolve has found a stale record and returned NotFound, the client is
\* about to spawn, and no daemon has registered the session since.
C16_Witness ==
  \E cl \in Clients :
    /\ client[cl].stale
    /\ client[cl].pc = "spawn"
    /\ client[cl].resolved = <<>>
    /\ client[cl].session \in pruned


\* The invocation cl has listed the sessions, from a directory it could read.
Listed(cl) ==
  client[cl].kind = "list" /\ client[cl].pc = "exit0" /\ client[cl].files # <<>>

\* The names that have a record among the files, and the process id recorded.
RecordNames(files) == {name \in Sessions \cup {"old"} : PidFile(name) \in DOMAIN files}
RecordedPid(files, name) == parseInt(files[PidFile(name)].pid)

\* C17 as stated: a listing returns exactly the names of the records whose
\* process id is alive, and removes the records whose process id is dead.
C17_ListPrunes ==
  \A cl \in Clients :
    Listed(cl) =>
      LET files == client[cl].files
          table == client[cl].table
          dead == {name \in RecordNames(files) : ~Alive(table, RecordedPid(files, name))}
      IN /\ client[cl].names = RecordNames(files) \ dead
         /\ client[cl].left = Without(files, {PidFile(name) : name \in dead})

\* C17, amended: a listing returns exactly the names of the records whose
\* process id names a process that process.kill(pid, 0) can signal; a record
\* whose process is dead, may not be signalled or whose content is no process
\* id is left out of the list and left in the directory: a listing removes
\* nothing.  From a directory that cannot be read the list is empty.
C17_ListSkipsAndKeeps ==
  \A cl \in Clients :
    /\ Listed(cl) =>
         LET files == client[cl].files
             table == client[cl].table
         IN /\ client[cl].names =
                 {name \in RecordNames(files) : kill0(table, RecordedPid(files, name))}
            /\ client[cl].left = files
    /\ (client[cl].kind = "list" /\ client[cl].pc = "exit0" /\ ~Listed(cl))
         => client[cl].names = {}

\* A listing has met the record of a dead daemon next to that of a live one:
\* it lists the live one only and the dead one's record is still there.
C17_Witness ==
  \E cl \in Clients :
    /\ Listed(cl)
    /\ \E stale, live \in Sessions :
         /\ PidFile(stale) \in DOMAIN client[cl].files
         /\ ~Alive(client[cl].table, RecordedPid(client[cl].files, stale))
         /\ stale \notin client[cl].names
         /\ PidFile(stale) \in DOMAIN client[cl].left
         /\ live \in client[cl].names


\* C18: an invocation that sends a command spawns at most one daemon and
\* connects at most twice, once before the spawn and once after it.  When send
\* throws (the daemon did not listen in time, or the connection after the
\* spawn failed) a spawn has been made, no daemon has answered, and main exits
\* with code 1: it does not resolve, spawn or connect again.
C18_OneSpawnPerSend ==
  \A cl \in Clients :
    /\ client[cl].spawned <= 1
    /\ client[cl].connects <= 2
    /\ client[cl].connects = 2 => client[cl].spawned = 1
    /\ client[cl].pc \in {"waiting", "connect2", "thrown", "exit1"}
         => client[cl].spawned = 1
    /\ client[cl].pc \in {"thrown", "exit1"} => client[cl].served = ""
    /\ client[cl].pc = "exit1" => client[cl].code = 1

\* An invocation has resolved a record, failed to connect, spawned a daemon,
\* failed to connect again and exited with code 1.
C18_Witness ==
  \E cl \in Clients :
    /\ client[cl].pc = "exit1"
    /\ client[cl].code = 1
    /\ client[cl].spawned = 1
    /\ client[cl].connects = 2
    /\ client[cl].resolved # <<>>


OpsOf(c) == SelectSeq(oplog, LAMBDA e : e.conn = c)

\* C22: a wait command with a timeout and no selector is answered with success
\* only after the timed wait of that duration, and nothing else, has been
\* awaited and has completed; the data is {waited: true}.  When the wait
\* raises the answer is an error response.
C22_TimedWaitCompletesFirst ==
  \A c \in Conns :
    /\ Settled(c)
    /\ IsAction(exec[c].command, "wait")
    /\ Defined(exec[c].command, "timeout")
    /\ ~Defined(exec[c].command, "selector")
    => /\ Len(OpsOf(c)) = 1
       /\ OpsOf(c)[1].op = "waitForTimeout"
       /\ OpsOf(c)[1].arg = exec[c].command["timeout"]
       /\ exec[c].response.success <=> OpsOf(c)[1].ok
       /\ exec[c].response.success => exec[c].response.data = [waited |-> True]

\* A timed wait has completed and has been answered.
C22_Witness ==
  \E c \in Conns :
    /\ Succeeded(c)
    /\ IsAction(exec[c].command, "wait")
    /\ Defined(exec[c].command, "timeout")
    /\ ~Defined(exec[c].command, "selector")
    /\ Defined(exec[c].command, "state")
    /\ OpsOf(c) # <<>>


\* The delta of a scroll command as the catalogue states it: the amount (100
\* when there is none) along the axis of the direction, signed by it, and the
\* command's x or y (0 when there is none) along the other axis.
StatedDelta(command) ==
  LET a == IF Defined(command, "amount") THEN command["amount"] ELSE Num(100)
      x == IF Defined(command, "x") THEN command["x"] ELSE Num(0)
      y == IF Defined(command, "y") THEN command["y"] ELSE Num(0)
      direction == IF Defined(command, "direction") THEN command["direction"].s ELSE ""
  IN CASE direction = "up" -> << x, Negate(a) >>
       [] direction = "down" -> << x, a >>
       [] direction = "left" -> << Negate(a), y >>
       [] direction = "right" -> << a, y >>
       [] OTHER -> << x, y >>

StatedScrollBy(command) == scrollBy(StatedDelta(command)[1], StatedDelta(command)[2])

\* C25: a scroll command with a selector that is answered with success has
\* scrolled the element into view and then scrolled it by the command's delta,
\* given as x and y or as a direction.  (A delta of (0, 0) need not be
\* applied.)
C25_ScrollWithinElement ==
  \A c \in Conns :
    (Succeeded(c) /\ IsAction(exec[c].command, "scroll")
       /\ Defined(exec[c].command, "selector"))
    => /\ OpsOf(c) # <<>>
       /\ OpsOf(c)[1].op = "scrollIntoViewIfNeeded"
       /\ OpsOf(c)[1].arg = exec[c].command["selector"]
       /\ \/ /\ Len(OpsOf(c)) = 2
             /\ OpsOf(c)[2].op = "element.scrollBy"
             /\ OpsOf(c)[2].arg = StatedScrollBy(exec[c].command)
          \/ /\ Len(OpsOf(c)) = 1
             /\ StatedDelta(exec[c].command) = << Num(0), Num(0) >>

\* C26: a scroll command without a selector scrolls the document, once, by the
\* stated delta: up -> (x, -a), down -> (x, a), left -> (-a, y),
\* right -> (a, y), no direction -> (x, y), with a the amount or 100 and x, y
\* the command's or 0.
C26_ScrollDocumentByDelta ==
  \A c \in Conns :
    (Settled(c) /\ IsAction(exec[c].command, "scroll")
       /\ ~Defined(exec[c].command, "selector"))
    => /\ Len(OpsOf(c)) = 1
       /\ OpsOf(c)[1].op = "window.scrollBy"
       /\ OpsOf(c)[1].arg = StatedScrollBy(exec[c].command)
       /\ exec[c].response.success <=> OpsOf(c)[1].ok

\* The document has been scrolled up by the default amount, keeping the x
\* the command gave.
C26_Witness ==
  \E c \in Conns :
    /\ Succeeded(c)
    /\ IsAction(exec[c].command, "scroll")
    /\ DOMAIN exec[c].command = {"id", "action", "direction", "x", "y"}
    /\ exec[c].command["direction"].s = "up"
    /\ OpsOf(c)[1].arg = Str("scrollBy(7, -100)")

\* C27 as stated: a screenshot command that carries a path makes the engine
\* write that file and is answered with that path; one that carries none is
\* answered with the encoded bytes.
C27_PathFieldDecides ==
  \A c \in Conns :
    (Succeeded(c) /\ IsAction(exec[c].command, "screenshot"))
    => IF Defined(exec[c].command, "path")
       THEN /\ OpsOf(c)[1].arg = exec[c].command["path"]
            /\ exec[c].response.data = [path |-> exec[c].command["path"]]
       ELSE /\ OpsOf(c)[1].arg = NoArg
            /\ DOMAIN exec[c].response.data = {"base64"}

\* C27, amended: the data of the answer to a screenshot command has exactly
\* one of path and base64.  When the command's path is a string that is not
\* empty the engine is asked to write that file and the answer returns that
\* path; when the command has no path, or an empty one, the engine is given no
\* path and the answer returns the encoded bytes.
C27_NonEmptyPathDecides ==
  \A c \in Conns :
    (Succeeded(c) /\ IsAction(exec[c].command, "screenshot"))
    => /\ Len(OpsOf(c)) = 1
       /\ OpsOf(c)[1].op = "screenshot"
       /\ IF Defined(exec[c].command, "path") /\ exec[c].command["path"].s # ""
          THEN /\ OpsOf(c)[1].arg = exec[c].command["path"]
               /\ exec[c].response.data = [path |-> exec[c].command["path"]]
          ELSE /\ OpsOf(c)[1].arg = NoArg
               /\ DOMAIN exec[c].response.data = {"base64"}

\* A screenshot command with an empty path has been answered with the bytes.
C27_Witness ==
  \E c \in Conns :
    /\ Succeeded(c)
    /\ IsAction(exec[c].command, "screenshot")
    /\ Defined(exec[c].command, "path")
    /\ exec[c].command["path"] = Str("")
    /\ DOMAIN exec[c].response.data = {"base64"}


\* C29: a tab_switch command whose index is not the index of an open page is
\* answered with an error response and leaves the pages and the active index
\* as they were.  One whose index is that of an open page and that is answered
\* with success has made that page the active one and returns its index, its
\* url and a title; the pages are as they were.  (When the engine raises on
\* the title the answer is an error and the page may already be the active
\* one.)
C29_TabSwitchChecksIndex ==
  \A c \in Conns :
    (Settled(c) /\ IsAction(exec[c].command, "tab_switch")) =>
      LET index == exec[c].command["index"]
      IN /\ browser.pages = before.pages
         /\ ~IsIndex(before, index)
              => /\ ~exec[c].response.success
                 /\ browser = before
         /\ IsIndex(before, index) /\ exec[c].response.success
              => /\ browser.active = index.n
                 /\ exec[c].response.data =
                      [index |-> index, url |-> Str(before.pages[index.n + 1].url),
                       title |-> Str("<title>")]
         /\ IsIndex(before, index) /\ ~exec[c].response.success
              => browser.active \in {before.active, index.n}

\* With three pages open and the last one active, a switch to index 3 has been
\* refused after a switch to index 1 was carried out.
C29_Witness ==
  /\ Settled(1)
  /\ IsAction(exec[1].command, "tab_switch")
  /\ exec[1].command["index"] = Num(3)
  /\ ~exec[1].response.success
  /\ Len(browser.pages) = 3
  /\ browser.active = 1
  /\ IsAction(last.command, "tab_switch")
  /\ last.response.success
  /\ last.before.active = 2


(***************************************************************************)
(* Faults and the daemon.                                                  *)
(***************************************************************************)
\* C21: a command other than close during which a capability operation raised
\* is answered with an error response under its id; the daemon does not stop
\* for it (it stops only when a close has been started) and is Listening with
\* the gate free whenever no command is executing; and a command during which
\* nothing raised is answered with success, whatever happened to the commands
\* before it.
C21_FaultKeepsDaemonListening ==
  /\ \A c \in Conns :
       (cstate[c] = "answered" /\ exec[c].raised) =>
         /\ ~response[c].success
         /\ DOMAIN response[c] = {"id", "success", "error"}
         /\ response[c].id = exec[c].command["id"]
  /\ \A c \in Conns :
       (cstate[c] = "answered" /\ ~exec[c].raised) => response[c].success
  /\ daemon = "Stopped" =>
       \E i \in DOMAIN starts : IsAction(exec[starts[i]].command, "close")
  /\ (daemon # "Stopped" /\ \A c \in Conns : cstate[c] # "executing") =>
       daemon = "Listening" /\ gate = 0

\* A command raised and was answered with an error; the command started after
\* it has been answered with success.
C21_Witness ==
  /\ Len(starts) = 2
  /\ exec[starts[1]].raised
  /\ cstate[starts[1]] = "answered"
  /\ ~response[starts[1]].success
  /\ ~IsAction(exec[starts[1]].command, "close")
  /\ cstate[starts[2]] = "answered"
  /\ response[starts[2]].success
  /\ daemon = "Listening"


(***************************************************************************)
(* The action tags.                                                        *)
(***************************************************************************)
\* The tags of the action catalogue.
Catalogue ==
  {"navigate", "click", "type", "press", "screenshot", "snapshot", "evaluate",
   "wait", "scroll", "select", "hover", "content", "close", "tab_new",
   "tab_list", "tab_switch", "tab_close", "window_new"}

\* The text parsed is that of an object with an action.
HasAction == Parsed /\ IsObjectText(wire) /\ "action" \in DOMAIN WireObject

\* C23 as stated: parseCommand accepts an object only when its action is one of
\* the 18 tags of the catalogue.
C23_OnlyCatalogueAccepted ==
  (HasAction /\ parsed.success) =>
    IsString(WireObject["action"]) /\ WireObject["action"].s \in Catalogue

\* C23, amended: the tags parseCommand accepts are the 18 tags of the
\* catalogue and launch.  An object whose action is anything else is refused,
\* and a command of each of the 19 tags with its required members (or with all
\* its members) is accepted.
C23_CatalogueAndLaunchAccepted ==
  /\ (HasAction /\ parsed.success) =>
       IsString(WireObject["action"])
         /\ WireObject["action"].s \in Catalogue \cup {"launch"}
  /\ (HasAction /\ ~parsed.success /\ IsString(WireObject["action"])
        /\ WireObject["action"].s \notin Catalogue \cup {"launch"}) =>
       /\ pstage # "dispatched"
       /\ exec[1] = NotCalled
  /\ \A a \in Catalogue \cup {"launch"} :
       (HasAction /\ WireObject \in BaseCommands(a)) => parsed.success

\* A launch command has been accepted.
C23_Witness ==
  /\ HasAction
  /\ parsed.success
  /\ WireObject["action"] = Str("launch")
  /\ parsed.command["action"] = Str("launch")

\* The keys of the data a handler returns, by tag.
DataKeys(action) ==
  CASE action = "launch" -> {{"launched"}}
    [] action = "navigate" -> {{"url", "title"}}
    [] action = "click" -> {{"clicked"}}
    [] action = "type" -> {{"typed"}}
    [] action = "press" -> {{"pressed"}}
    [] action = "screenshot" -> {{"path"}, {"base64"}}
    [] action = "snapshot" -> {{"snapshot"}}
    [] action = "evaluate" -> {{"result"}}
    [] action = "wait" -> {{"waited"}}
    [] action = "scroll" -> {{"scrolled"}}
    [] action = "select" -> {{"selected"}}
    [] action = "hover" -> {{"hovered"}}
    [] action = "content" -> {{"html"}}
    [] action = "close" -> {{"closed"}}
    [] action \in {"tab_new", "window_new"} -> {{"index", "total"}}
    [] action = "tab_list" -> {{"tabs", "active"}}
    [] action = "tab_switch" -> {{"index", "url", "title"}}
    [] action = "tab_close" -> {{"closed", "remaining"}}
    [] OTHER -> {}

\* C24: a command that parseCommand accepted and that is dispatched is matched
\* by a case of the switch: the call runs the handler of its tag (a success
\* response carries the data of that tag) and is never answered with
\* "Unknown action".
C24_AcceptedTagsHaveHandlers ==
  pstage = "dispatched" =>
    /\ parsed.success
    /\ handed["action"].s \in SwitchCases
    /\ exec[1].pc # "idle"
    /\ Settled(1) =>
         /\ exec[1].settled = "returned"
         /\ exec[1].response.success
              => DOMAIN exec[1].response.data \in DataKeys(handed["action"].s)
         /\ ~exec[1].response.success
              => /\ exec[1].raised
                 /\ ~startsWith(exec[1].response.error, "Unknown action")

\* A launch command went through validation and its handler has answered.
C24_Witness ==
  /\ pstage = "dispatched"
  /\ handed["action"] = Str("launch")
  /\ Succeeded(1)
  /\ exec[1].response.data = [launched |-> True]


(***************************************************************************)
(* Properties of the command line.                                         *)
(***************************************************************************)
\* The run is wait in text mode with a target.
WaitForText ==
  /\ At(cleanArgs(cli.args), 1) = "wait"
  /\ textMode(cli.args)
  /\ At(cleanArgs(cli.args), 2) # ""

\* C28: when wait is run in text mode with a target, the command built is a
\* wait with selector text=<target> and no timeout.
C28_TextModeWaitsForText ==
  (WaitForText /\ cli.pc # "start") =>
    cli.cmd = [id |-> cli.cmd["id"], action |-> Str("wait"),
               selector |-> Str("text=" \o At(cleanArgs(cli.args), 2))]

\* C30: a run that sent a command exits with 0 if and only if it received a
\* response with success = true.
C30_ExitCodeTellsSuccess ==
  (cli.pc = "exited" /\ cli.outcome # "") =>
    (cli.code = 0 <=> (cli.outcome = "response" /\ cli.response.success))

====
